---- MODULE Spec2Model ----
(***************************************************************************)
(* tsubushigoto: the task store (web/lib/tasks-db.ts), an IndexedDB object *)
(* store "tasks" keyed by id behind a module-level cache, and its callers: *)
(* the list page (web/app/page.tsx) and the task editor                    *)
(* (components/task-editor-page).                                          *)
(*                                                                         *)
(* Encoding of JavaScript values                                           *)
(*   - free text (title, caption, ...) is a TLA+ string;                   *)
(*   - a date or date-time string is an integer: NoDate is the empty       *)
(*     string "", InvalidDate a non-empty string that Date cannot parse,   *)
(*     n > 0 the ISO string of instant n (createdAt, updatedAt,            *)
(*     completedAt) or of day n (startDate, endDate);                      *)
(*   - an object is a record; a property the object does not have is a     *)
(*     field the record does not have;                                     *)
(*   - a Map is a function whose DOMAIN is the set of keys present;        *)
(*   - a Blob is a record of its type and its bytes, a data URL a record   *)
(*     of its media type and its base64 payload; a value of an import file *)
(*     that is no object, or where a data URL is expected no data URL, is  *)
(*     a record that says so in its typeof field.                          *)
(*   - the text of an import file is the value JSON.parse gives for it,    *)
(*     a record of its kind (array, object, number, ...) and its content,  *)
(*     or the record that says the text is no JSON;                        *)
(*   - the database is a record of its version and of the version change   *)
(*     another tab has asked for.                                          *)
(*                                                                         *)
(* Specifications                                                          *)
(*   - Spec: the functions of the store under a caller that awaits each    *)
(*     call, over a database another tab can delete from;                  *)
(*   - SpecFault: the same functions over a database that can fail to      *)
(*     open, fail a request and fail to commit;                            *)
(*   - SpecDraft: createTaskDraft among writes and list fetches;           *)
(*   - SpecImport: the list page and its imports;                          *)
(*   - SpecEditor: the editor with its field edits and its autosave;       *)
(*   - SpecRoundTrip: the export and the import of the exported file;      *)
(*   - SpecSort: the writes and the list fetches alone, with three ids;    *)
(*   - SpecApp: the pages as the callers of the store;                     *)
(*   - SpecMalformed: the imports of files that are no list of tasks or    *)
(*     hold images that do not decode;                                     *)
(*   - SpecVersion: the functions of the store, called without waiting     *)
(*     for one another, while another tab upgrades or deletes the          *)
(*     database;                                                           *)
(*   - SpecInterleave: the functions of the store called without waiting   *)
(*     for one another;                                                    *)
(*   - SpecStaleList: the list page fetching while writes are in flight;   *)
(*   - SpecAutosave: the editor of one route under edits that differ;      *)
(*   - SpecReimport: the list page left and opened again while it imports, *)
(*     over a store whose requests can fail;                               *)
(*   - SpecFrame: the functions of the store and createTaskDraft under a   *)
(*     caller that awaits each call.                                       *)
(* In all but SpecFault and SpecVersion the database opens, and in all but *)
(* SpecFault a request that has succeeded commits.  The variables fetched, *)
(* upserted, last and prevAll and the field notified of idb record the     *)
(* history of the session for the properties; they decide nothing about    *)
(* the other variables.                                                    *)
(***************************************************************************)
EXTENDS Integers, Sequences, FiniteSets, TLC

\* ---------------------------------------------------------------- bounds
MaxClock == 2
MaxPending == 1
MaxUpserts == 2
MaxSortUpserts == 3
MaxFileLen == 2
MaxInFlight == 2
TicksPerDay == 2

\* ------------------------------------------------------------- universes
Ids == {1, 2, 3}
SessionIds == {1, 2}
NoId == 0
DB_VERSION == 1
NoDate == 0
InvalidDate == -1
NaN == -2
Undefined == [undefined |-> TRUE]
Null == [null |-> TRUE]
NoArg == [none |-> TRUE]
NullTask == [null |-> TRUE]
NoRet == [fn |-> "none"]

\* ---------------------------------------------------------------- state
VARIABLES
    clock,          \* Date.now(), in ticks
    usedIds,        \* ids crypto.randomUUID() has returned or a caller has used
    nUpserts,       \* the number of upsertTask calls so far
    idb,            \* the database: its version, what another tab has asked for,
                    \* and whether a version change has reached this tab
    dbPromise,      \* tasks-db.ts:20
    store,          \* the records of the object store "tasks"
    taskCache,      \* tasks-db.ts:21
    txs,            \* runTransaction calls in flight, in order of creation
    ret,            \* what a store function returned or settled to in the last step
    fetched,        \* history: ids getAllTasks or getTaskById returned this session
    upserted,       \* history: ids an upsertTask of this session has resolved for
    last,           \* history: per id, the last write that resolved this session
    prevAll,        \* history: the last getAllTasks result, while no write followed
    page,           \* the mounted page: "none", "home" or "editor"
    tasks,          \* Home: the tasks state
    taskToDelete,   \* Home: the taskToDelete state
    isImportingRef, \* Home: isImportingRef.current
    orphan,         \* the handleImport call of a Home that has unmounted since
    imp,            \* the handleImport call in progress
    download,       \* the file the last handleExport has produced
    taskId,         \* TaskEditorPage: the taskId prop
    task,           \* TaskEditorPage: the task state
    skipFirstSaveRef, \* TaskEditorPage: skipFirstSaveRef.current
    timer,          \* TaskEditorPage: the tasks the pending autosave timers save, in
                    \* the order of their setTimeout
    editorPc,       \* TaskEditorPage: "mounting" until the first effects ran
    isCompleteConfirmOpen \* TaskEditorPage: the isCompleteConfirmOpen state

envVars == <<clock, usedIds, nUpserts, idb>>
storeVars == <<dbPromise, store, taskCache, txs>>
histVars == <<fetched, upserted, last, prevAll>>
homeVars == <<tasks, taskToDelete, isImportingRef, imp, orphan, download>>
editorVars == <<taskId, task, skipFirstSaveRef, timer, editorPc, isCompleteConfirmOpen>>
pageVars == <<page, tasks, taskToDelete, isImportingRef, imp, orphan, download, taskId, task,
              skipFirstSaveRef, timer, editorPc, isCompleteConfirmOpen>>
vars == <<clock, usedIds, nUpserts, idb, dbPromise, store, taskCache, txs, ret,
          fetched, upserted, last, prevAll, page, tasks, taskToDelete, isImportingRef, imp,
          orphan, download,
          taskId, task, skipFirstSaveRef, timer, editorPc, isCompleteConfirmOpen>>

\* ------------------------------------------------------- object helpers
\* { ...r, ...o }
Spread(r, o) ==
    [f \in (DOMAIN r) \cup (DOMAIN o) |-> IF f \in DOMAIN o THEN o[f] ELSE r[f]]

\* Map: set(k, v), delete(k), get(k)
MapSet(m, k, v) == [x \in (DOMAIN m) \cup {k} |-> IF x = k THEN v ELSE m[x]]
MapDelete(m, k) == [x \in (DOMAIN m) \ {k} |-> m[x]]
MapGet(m, k) == IF k \in DOMAIN m THEN m[k] ELSE Undefined
EmptyMap == [x \in {} |-> Undefined]

\* the object store, createObjectStore(STORE_NAME, { keyPath: "id" }): a set
\* of records; put replaces the record with the key of the value, if any
StorePut(st, r) == {x \in st : x.id # r.id} \cup {r}
StoreDelete(st, k) == {x \in st : x.id # k}
StoreGet(st, k) ==
    IF \E x \in st : x.id = k THEN CHOOSE x \in st : x.id = k ELSE Undefined
StoreKeys(st) == {x.id : x \in st}

\* store.getAll(): every record, in ascending key order
RECURSIVE StoreGetAll(_)
StoreGetAll(st) ==
    IF st = {} THEN <<>>
    ELSE LET r == CHOOSE x \in st : \A y \in st : x.id <= y.id
         IN  <<r>> \o StoreGetAll(st \ {r})

\* new Date(s).getTime() for a date-time string s
DateGetTime(s) == IF s > 0 THEN s ELSE NaN

\* new Date(`${d}T00:00:00`).getTime() for a date string d
DayStartGetTime(d) == IF d > 0 THEN d * TicksPerDay ELSE NaN

\* ------------------------------------------------------ createTaskDraft
\* createTaskDraft with id the given id or the one crypto.randomUUID() has
\* returned, and now the clock
createTaskDraftUntitled(id, now) ==
    [ id |-> id,
      title |-> "Untitled",
      caption |-> "",
      memo |-> "",
      link |-> "",
      startDate |-> NoDate,
      endDate |-> NoDate,
      imageBlob |-> Null,
      imageUrl |-> "",
      createdAt |-> now,
      updatedAt |-> now,
      completed |-> FALSE ]
createTaskDraft(id, now) ==
    [ id |-> id,
      title |-> "",
      caption |-> "",
      memo |-> "",
      link |-> "",
      startDate |-> NoDate,
      endDate |-> NoDate,
      imageBlob |-> Null,
      imageUrl |-> "",
      createdAt |-> now,
      updatedAt |-> now,
      completed |-> FALSE ]

\* -------------------------------------------------- getAllTasks: the sort
toSortTime(t) ==
    IF t.startDate # NoDate /\ DayStartGetTime(t.startDate) # NaN
    THEN DayStartGetTime(t.startDate)
    ELSE DateGetTime(t.createdAt)

\* (a, b) => toSortTime(a) - toSortTime(b), as Array.prototype.sort reads it:
\* a NaN result counts as +0
compareTasks(a, b) ==
    IF toSortTime(a) = NaN \/ toSortTime(b) = NaN
    THEN 0
    ELSE toSortTime(a) - toSortTime(b)

InsertAt(s, p, x) == SubSeq(s, 1, p) \o <<x>> \o SubSeq(s, p + 1, Len(s))

\* binary insertion: the position after the elements not greater than x
RECURSIVE BinaryPos(_, _, _, _)
BinaryPos(s, x, left, right) ==
    IF left < right
    THEN LET mid == left + ((right - left) \div 2)
         IN  IF compareTasks(x, s[mid + 1]) < 0
             THEN BinaryPos(s, x, left, mid)
             ELSE BinaryPos(s, x, mid + 1, right)
    ELSE left

RECURSIVE SortFrom(_, _)
SortFrom(done, rest) ==
    IF rest = <<>> THEN done
    ELSE LET x == Head(rest)
         IN  SortFrom(InsertAt(done, BinaryPos(done, x, 0, Len(done)), x), Tail(rest))

\* Array.prototype.sort with compareTasks: binary insertion, the way V8 sorts
\* a short array
ArraySort(s) == SortFrom(<<>>, s)

\* ------------------------------------------------------------- the store
ReadOnly == {"getAll", "get"}

\* openDb (tasks-db.ts:23): the open request is issued once and memoized
dbPromiseAfterOpenDbNotMemoized == "pending"
dbPromiseAfterOpenDbRetrying ==
    IF dbPromise \in {"null", "rejected"} THEN "pending" ELSE dbPromise
dbPromiseAfterOpenDb == IF dbPromise = "null" THEN "pending" ELSE dbPromise

\* the callers whose continuation is not part of the model: "api" is any
\* caller, "editor" one that passes what the editor passes, "import" one that
\* passes what the import passes
Detached == {"api", "editor", "import"}

\* the transaction runTransaction creates once `await openDb()` has resumed:
\* at once when the handle is there, after the open request otherwise; when
\* the open request has failed the await throws and there is no transaction.
\* arg is the argument of the store function, next the record upsertTask puts,
\* caller the function that awaits the result, mounted the flag of its
\* closure, undo what the store held under id before the request wrote and
\* closing whether db.close() has been called on its connection
NewTx(fn, id, arg, next, caller) ==
    [ fn |-> fn, id |-> id, arg |-> arg, next |-> next, caller |-> caller,
      mounted |-> (caller \notin Detached),
      undo |-> Undefined,
      closing |-> FALSE,
      phase |-> IF dbPromise = "resolved" THEN "queued"
                ELSE IF dbPromise = "rejected" THEN "failed"
                ELSE "awaitDb" ]

\* runTransaction while fewer than limit calls are in flight
runTransactionWithin(limit, fn, id, arg, next, caller) ==
    /\ Len(txs) < limit
    /\ dbPromise' = dbPromiseAfterOpenDb
    /\ txs' = Append(txs, NewTx(fn, id, arg, next, caller))
    /\ UNCHANGED <<store, taskCache, histVars>>

runTransaction(fn, id, arg, next, caller) ==
    runTransactionWithin(MaxPending, fn, id, arg, next, caller)

\* upsertTask: nextTask, { ...task, updatedAt: new Date().toISOString() }
nextTaskKeepingUpdatedAt(t, now) == t
nextTaskOf(t, now) == [t EXCEPT !.updatedAt = now]

getAllTasks(caller) ==
    /\ runTransaction("getAll", NoId, NoArg, NoArg, caller)
    /\ ret' = NoRet

\* taskCache.get(id)
taskCacheGetOrStored(id) ==
    IF id \in DOMAIN taskCache THEN taskCache[id] ELSE StoreGet(store, id)
taskCacheGet(id) == MapGet(taskCache, id)

getTaskByIdFromCacheOpeningDb(id) ==
    /\ ret' = [fn |-> "getTaskByIdFromCache", id |-> id, value |-> taskCacheGet(id)]
    /\ dbPromise' = dbPromiseAfterOpenDb
    /\ UNCHANGED <<store, taskCache, txs, histVars>>
getTaskByIdFromCache(id) ==
    /\ ret' = [fn |-> "getTaskByIdFromCache", id |-> id, value |-> taskCacheGet(id)]
    /\ UNCHANGED <<storeVars, histVars>>

\* getTaskById, the cache hit: Promise.resolve(cached)
getTaskByIdCachedReadingStore(id) ==
    /\ id \in DOMAIN taskCache
    /\ ret' = [fn |-> "getTaskById", id |-> id, path |-> "cache",
               value |-> StoreGet(store, id)]
    /\ fetched' = IF StoreGet(store, id) # Undefined THEN fetched \cup {id} ELSE fetched
    /\ UNCHANGED <<storeVars, upserted, last, prevAll>>
getTaskByIdCached(id) ==
    /\ id \in DOMAIN taskCache
    /\ ret' = [fn |-> "getTaskById", id |-> id, path |-> "cache",
               value |-> taskCache[id]]
    /\ fetched' = fetched \cup {id}
    /\ UNCHANGED <<storeVars, upserted, last, prevAll>>

\* getTaskById, the cache miss: store.get(id) in a readonly transaction
getTaskByIdMiss(id, caller) ==
    /\ id \notin DOMAIN taskCache
    /\ runTransaction("get", id, NoArg, NoArg, caller)
    /\ ret' = NoRet

upsertTask(t, caller) ==
    /\ runTransaction("put", t.id, t, nextTaskOf(t, clock), caller)
    /\ ret' = NoRet

deleteTaskById(id, caller) ==
    /\ runTransaction("delete", id, NoArg, NoArg, caller)
    /\ ret' = NoRet

\* IndexedDB runs a readonly transaction when no readwrite transaction created
\* before it is live, and a readwrite transaction when no transaction created
\* before it is live
CanStartInAnyOrder(i) == i \in 1..Len(txs) /\ txs[i].phase = "queued"
CanStart(i) ==
    /\ i \in 1..Len(txs)
    /\ txs[i].phase = "queued"
    /\ IF txs[i].fn \in ReadOnly
       THEN \A j \in 1..(i - 1) : txs[j].fn \in ReadOnly
       ELSE i = 1

RemoveAt(s, i) == SubSeq(s, 1, i - 1) \o SubSeq(s, i + 1, Len(s))

\* the ids of the records of a list
IdsOf(list) == {list[i].id : i \in 1..Len(list)}

\* the last record of a list with id k
LastWithId(list, k) ==
    list[CHOOSE i \in 1..Len(list) :
            /\ list[i].id = k
            /\ \A j \in (i + 1)..Len(list) : list[j].id # k]

\* getAllTasks, request.onsuccess: the list handed to done()
sortedTasksOfCache(st) == ArraySort(StoreGetAll({taskCache[k] : k \in DOMAIN taskCache}))
sortedTasks(st) == ArraySort(StoreGetAll(st))

\* getAllTasks, request.onsuccess: taskCache.clear() and one set per task
cacheAfterGetAllWithoutClear(list) ==
    [k \in (DOMAIN taskCache) \cup IdsOf(list) |->
        IF k \in IdsOf(list) THEN LastWithId(list, k) ELSE taskCache[k]]
cacheAfterGetAll(list) == [k \in IdsOf(list) |-> LastWithId(list, k)]

\* getTaskById, request.onsuccess: if (task) taskCache.set(task.id, task)
cacheAfterGet(found) ==
    IF found # Undefined THEN MapSet(taskCache, found.id, found) ELSE taskCache

\* upsertTask, request.onsuccess: taskCache.set(nextTask.id, nextTask)
cacheAfterPutNotSet(nextTask) == taskCache
cacheAfterPutUnderOtherKey(nextTask) ==
    MapSet(taskCache, (nextTask.id % 2) + 1, nextTask)
cacheAfterPut(nextTask) == MapSet(taskCache, nextTask.id, nextTask)

\* deleteTaskById, request.onsuccess: taskCache.delete(id)
cacheAfterDeleteNotDeleted(id) == taskCache
cacheAfterDeleteCleared(id) == EmptyMap
cacheAfterDelete(id) == MapDelete(taskCache, id)

\* upsertTask: store.put(nextTask) on the store keyed by id
storeAfterPutAdding(nextTask) == store \cup {nextTask}
storeAfterPut(nextTask) == StorePut(store, nextTask)

\* the history of the session
NoWrite == [kind |-> "none"]
Deleted == [kind |-> "del"]
OtherTab == [kind |-> "other"]
Written(id, arg) ==
    [kind |-> "put", arg |-> arg,
     n |-> IF last[id].kind = "put" THEN last[id].n + 1 ELSE 1]
NoList == [valid |-> FALSE, again |-> FALSE, list |-> <<>>, cache |-> EmptyMap]

\* ------------------------------------------------------------ the import
\* the elements an import file can hold: a task whose dates do not parse and
\* whose updatedAt is ahead of the clock, and an object that is no task
FileElements ==
    { [title |-> "a", startDate |-> InvalidDate, createdAt |-> InvalidDate,
       updatedAt |-> MaxClock + 1, completed |-> TRUE],
      [foo |-> "a"] }

RECURSIVE SeqsUpTo(_, _)
SeqsUpTo(S, n) ==
    IF n = 0 THEN {<<>>}
    ELSE LET shorter == SeqsUpTo(S, n - 1)
         IN  shorter \cup {Append(q, e) : q \in shorter, e \in S}

Files == SeqsUpTo(FileElements, MaxFileLen)

\* the elements of the files the import page is given: a task with the id of
\* a stored task, a creation time ahead of the clock and a completion without
\* its time, a completed task with an image, an object that is no task and a
\* number
PngDataUrl == [typeof |-> "dataUrl", mime |-> "image/png", payload |-> "AQ=="]

ImageElement ==
    [title |-> "b", completed |-> TRUE, completedAt |-> 1,
     imageBlobDataUrls |-> <<PngDataUrl>>]

ImportElements ==
    { [id |-> 1, title |-> "a", createdAt |-> MaxClock + 1, completed |-> TRUE],
      ImageElement,
      [foo |-> "a"],
      [typeof |-> "number"] }

ImportFiles == SeqsUpTo(ImportElements, MaxFileLen)

TaskLikeFields ==
    { "title", "caption", "memo", "link", "startDate", "endDate", "imageUrl",
      "imageBlobDataUrl", "imageBlobDataUrls", "createdAt", "completedAt",
      "updatedAt", "completed" }

hasAnyField(record) == DOMAIN record # {}
hasTaskLikeField(record) == \E key \in TaskLikeFields : key \in DOMAIN record

\* !sourceTask || typeof sourceTask !== "object"
IsObject(sourceTask) == "typeof" \notin DOMAIN sourceTask

\* btoa and atob on the byte strings of the model; atob throws on a payload
\* that is no base64
Btoa(bytes) == IF bytes = <<>> THEN "" ELSE "AQ=="
Atob(payload) == IF payload = "" THEN <<>> ELSE <<1>>
IsBase64(payload) == payload \in {"", "AQ=="}

\* blobToDataUrl: FileReader.readAsDataURL
blobToDataUrl(blob) ==
    [ typeof |-> "dataUrl",
      mime |-> IF blob.type = "" THEN "application/octet-stream" ELSE blob.type,
      payload |-> Btoa(blob.bytes) ]

\* typeof item === "string" && item.startsWith("data:"), and dataUrlToBlob
\* does not throw: it throws when nothing follows the comma and when atob
\* throws
DecodesAnyDataUrl(item) == item.typeof = "dataUrl"
Decodes(item) ==
    item.typeof = "dataUrl" /\ item.payload # "" /\ IsBase64(item.payload)

\* dataUrlToBlob
dataUrlToBlobWithoutBytes(dataUrl) == [type |-> dataUrl.mime, bytes |-> <<>>]
dataUrlToBlob(dataUrl) == [type |-> dataUrl.mime, bytes |-> Atob(dataUrl.payload)]

\* handleImport: imageBlobs (page.tsx:384)
importedImageBlobs(record) ==
    LET fromList ==
            IF "imageBlobDataUrls" \in DOMAIN record
            THEN LET items == SelectSeq(record.imageBlobDataUrls, Decodes)
                 IN  [k \in 1..Len(items) |-> dataUrlToBlob(items[k])]
            ELSE <<>>
    IN  IF fromList = <<>> /\ "imageBlobDataUrl" \in DOMAIN record
                          /\ Decodes(record.imageBlobDataUrl)
        THEN <<dataUrlToBlob(record.imageBlobDataUrl)>>
        ELSE fromList

\* asString(record[key]) for a text property and for a date property
asString(record, key) == IF key \in DOMAIN record THEN record[key] ELSE ""
asDateString(record, key) == IF key \in DOMAIN record THEN record[key] ELSE NoDate

\* handleImport: nextTask (page.tsx:404)
importedTask(record, draft) ==
    Spread(draft,
        [ title |-> asString(record, "title"),
          caption |-> asString(record, "caption"),
          memo |-> asString(record, "memo"),
          link |-> asString(record, "link"),
          startDate |-> asDateString(record, "startDate"),
          endDate |-> asDateString(record, "endDate"),
          imageBlobs |-> importedImageBlobs(record),
          imageBlob |-> IF importedImageBlobs(record) # <<>>
                        THEN importedImageBlobs(record)[1] ELSE Null,
          imageUrl |-> asString(record, "imageUrl"),
          createdAt |-> IF asDateString(record, "createdAt") # NoDate
                        THEN asDateString(record, "createdAt") ELSE draft.createdAt,
          completedAt |-> asDateString(record, "completedAt"),
          updatedAt |-> IF asDateString(record, "updatedAt") # NoDate
                        THEN asDateString(record, "updatedAt") ELSE draft.updatedAt,
          completed |-> ("completed" \in DOMAIN record /\ record.completed) ])

\* the elements of the file the loop has not skipped
RECURSIVE SkipUnrelated(_)
SkipUnrelated(rest) ==
    IF rest = <<>> \/ (IsObject(Head(rest)) /\ hasTaskLikeField(Head(rest))) THEN rest
    ELSE SkipUnrelated(Tail(rest))

\* JSON.parse(fileText): an array of its items, an object with or without
\* a property tasks, another value ("number", "string", "null"), or for a
\* text that is no JSON the SyntaxError it throws
JsonArray(items) == [json |-> "array", items |-> items]
JsonObject(tasksValue) == [json |-> "object", tasks |-> tasksValue]
JsonUndefined == [json |-> "undefined"]

\* Array.isArray(parsed) ? parsed : parsed.tasks
sourceTasksOf(parsed) ==
    IF parsed.json = "array" THEN parsed
    ELSE IF "tasks" \in DOMAIN parsed THEN parsed.tasks
    ELSE JsonUndefined

\* handleImport reaches its loop: JSON.parse has not thrown, parsed.tasks has
\* not thrown, which it does on null, and sourceTasks is an array
ReachesLoop(parsed) ==
    /\ parsed.json \notin {"syntaxError", "null"}
    /\ sourceTasksOf(parsed).json = "array"

\* the elements of sourceTasks, none when the import does not reach its loop
sourceTaskElements(parsed) ==
    IF ReachesLoop(parsed) THEN sourceTasksOf(parsed).items ELSE <<>>

\* no import in progress.  Of an import in progress, parsed is what the file
\* holds, file is sourceTasks, rest the elements the loop has not reached,
\* count importedCount and live whether the Home that started it is still
\* mounted
Idle ==
    [pc |-> "idle", rest |-> <<>>, live |-> FALSE, file |-> <<>>, count |-> 0,
     parsed |-> NoArg]

\* the handleImport call a transaction belongs to: the one of the mounted
\* Home, or the one of a Home that has unmounted
ImportOf(tx) == IF tx.mounted THEN imp ELSE orphan

\* the state of the call cur becomes next
setImport(cur, next) ==
    IF cur.live THEN imp' = next /\ UNCHANGED orphan
    ELSE orphan' = next /\ UNCHANGED imp

\* handleImport's finally: isImportingRef.current = false, on the ref of the
\* Home that has made the call
importEnds(cur) ==
    /\ setImport(cur, Idle)
    /\ isImportingRef' = IF cur.live THEN FALSE ELSE isImportingRef

\* handleImport from the head of the loop to its next await: upsertTask of
\* the next task-like element, or refreshTasks() after the last one.
\* cur is the call, base the queue its next call is appended to and count
\* importedCount
importLoop(cur, base, count) ==
    LET todo == SkipUnrelated(cur.rest) IN
    IF todo = <<>>
    THEN /\ txs' = Append(base, [NewTx("getAll", NoId, NoArg, NoArg, "refreshTasks")
                                    EXCEPT !.mounted = cur.live])
         /\ setImport(cur, [cur EXCEPT !.pc = "refreshing", !.rest = <<>>,
                                       !.count = count])
         /\ UNCHANGED <<usedIds, nUpserts>>
    ELSE \E id \in Ids \ usedIds :
            LET nextTask == importedTask(Head(todo), createTaskDraft(id, clock)) IN
            /\ nUpserts < MaxUpserts
            /\ nUpserts' = nUpserts + 1
            /\ usedIds' = usedIds \cup {id}
            /\ txs' = Append(base, [NewTx("put", id, nextTask,
                                          nextTaskOf(nextTask, clock), "handleImport")
                                      EXCEPT !.mounted = cur.live])
            /\ setImport(cur, [cur EXCEPT !.pc = "upserting", !.rest = Tail(todo),
                                          !.count = count])

\* ------------------------------------------------------------ the export
\* getTaskImageBlobs (page.tsx:130)
getTaskImageBlobs(t) ==
    IF "imageBlobs" \in DOMAIN t /\ t.imageBlobs # <<>> THEN t.imageBlobs
    ELSE IF t.imageBlob # Null THEN <<t.imageBlob>>
    ELSE <<>>

\* JSON.stringify of a Blob: an object without properties
EmptyObject == [x \in {} |-> Undefined]

\* an element of exportTasks as JSON.stringify writes it and JSON.parse reads
\* it: the properties of the task, the Blobs as empty objects, and the images
\* as data URLs
exportTask(t) ==
    LET blobs == getTaskImageBlobs(t)
        json == [f \in DOMAIN t |->
                    IF f = "imageBlob" THEN (IF t[f] = Null THEN Null ELSE EmptyObject)
                    ELSE IF f = "imageBlobs" THEN [k \in 1..Len(t[f]) |-> EmptyObject]
                    ELSE t[f]]
    IN  Spread(json,
            [ imageBlobDataUrl |-> IF blobs # <<>> THEN blobToDataUrl(blobs[1])
                                   ELSE [typeof |-> "null"],
              imageBlobDataUrls |-> [k \in 1..Len(blobs) |-> blobToDataUrl(blobs[k])] ])

\* handleExport: the file, with allTasks as source and exportTasks as tasks
NoDownload == [valid |-> FALSE, source |-> <<>>, tasks |-> <<>>]
exported(allTasks) ==
    [ valid |-> TRUE, source |-> allTasks,
      tasks |-> [k \in 1..Len(allTasks) |-> exportTask(allTasks[k])] ]

\* ------------------------------------------------------------ callbacks
\* indexedDB.open, request.onsuccess: every runTransaction waiting for the
\* handle creates its transaction, in the order of the calls
OpenSuccess ==
    /\ dbPromise = "pending"
    /\ idb.request = "none"
    /\ idb.version <= DB_VERSION
    /\ idb' = [idb EXCEPT !.version = DB_VERSION]
    /\ dbPromise' = "resolved"
    /\ txs' = [i \in 1..Len(txs) |-> [txs[i] EXCEPT !.phase = "queued"]]
    /\ ret' = NoRet
    /\ UNCHANGED <<store, taskCache, clock, usedIds, nUpserts, histVars, pageVars>>

\* the cleanup of the autosave effect, clearTimeout(timer): the timer the
\* effect's last run has set is pending no more
clearTimeoutKeepingTimer(q) == q
clearTimeout(q) == IF q = <<>> THEN q ELSE SubSeq(q, 1, Len(q) - 1)

\* the autosave effect of the render that follows setTask(next): no timer
\* for the first task the editor shows, and after it the cleanup of the
\* effect's last run and then setTimeout with the task of this render
timerAfterSetTaskUnderNewId(next) ==
    IF skipFirstSaveRef THEN timer
    ELSE Append(clearTimeout(timer), [next EXCEPT !.id = (next.id % 3) + 1])
timerAfterSetTaskWithoutSkip(next) == Append(clearTimeout(timer), next)
timerAfterSetTask(next) ==
    IF skipFirstSaveRef THEN timer ELSE Append(clearTimeout(timer), next)

\* setTask(next) and the autosave effect of the render that follows
setTask(next) ==
    /\ task' = next
    /\ timer' = timerAfterSetTask(next)
    /\ skipFirstSaveRef' = FALSE

\* getAllTasks, request.onsuccess, and the caller's continuation
GetAllSuccess(i) ==
    LET list == sortedTasks(store) IN
    /\ CanStart(i)
    /\ txs[i].fn = "getAll"
    /\ taskCache' = cacheAfterGetAll(list)
    /\ ret' = [fn |-> "getAllTasks", id |-> NoId, value |-> list]
    /\ txs' = RemoveAt(txs, i)
    /\ fetched' = fetched \cup IdsOf(list)
    /\ prevAll' = [valid |-> TRUE, again |-> prevAll.valid, list |-> list,
                    cache |-> taskCache']
    /\ tasks' = IF txs[i].mounted /\ txs[i].caller # "handleExport"
                THEN list ELSE tasks
    /\ IF txs[i].caller = "refreshTasks"
       THEN importEnds(ImportOf(txs[i]))
       ELSE UNCHANGED <<imp, orphan, isImportingRef>>
    /\ download' = IF txs[i].caller = "handleExport" THEN exported(list) ELSE download
    /\ UNCHANGED <<dbPromise, store, envVars, upserted, last, page, taskToDelete,
                   editorVars>>

\* getTaskById, request.onsuccess, and loadTask's continuation
GetSuccess(i) ==
    LET found == StoreGet(store, txs[i].id) IN
    /\ CanStart(i)
    /\ txs[i].fn = "get"
    /\ taskCache' = cacheAfterGet(found)
    /\ ret' = [fn |-> "getTaskById", id |-> txs[i].id, path |-> "store",
               value |-> found]
    /\ txs' = RemoveAt(txs, i)
    /\ fetched' = IF found # Undefined THEN fetched \cup {txs[i].id} ELSE fetched
    /\ IF txs[i].mounted
       THEN setTask(IF found # Undefined THEN found
                    ELSE createTaskDraft(txs[i].id, clock))
       ELSE UNCHANGED <<task, skipFirstSaveRef, timer>>
    /\ UNCHANGED <<dbPromise, store, envVars, upserted, last, prevAll, page, homeVars, taskId,
                   editorPc, isCompleteConfirmOpen>>

\* upsertTask, request.onsuccess, and the caller's continuation
PutSuccess(i) ==
    LET nextTask == txs[i].next
        committing == [txs EXCEPT ![i].phase = "committing",
                                  ![i].undo = StoreGet(store, nextTask.id)]
    IN
    /\ CanStart(i)
    /\ txs[i].fn = "put"
    /\ store' = storeAfterPut(nextTask)
    /\ taskCache' = cacheAfterPut(nextTask)
    /\ ret' = [fn |-> "upsertTask", id |-> nextTask.id, value |-> nextTask]
    /\ last' = [last EXCEPT ![nextTask.id] = Written(nextTask.id, txs[i].arg)]
    /\ upserted' = upserted \cup {nextTask.id}
    /\ prevAll' = NoList
    /\ IF txs[i].caller = "handleImport"
       THEN importLoop(ImportOf(txs[i]), committing, ImportOf(txs[i]).count + 1)
       ELSE /\ txs' = committing
            /\ UNCHANGED <<imp, orphan, usedIds, nUpserts>>
    /\ UNCHANGED <<dbPromise, clock, idb, fetched, page, tasks, taskToDelete,
                   isImportingRef, download, editorVars>>

\* deleteTaskById, request.onsuccess: done(undefined), whether or not the
\* store held a record under id
deletedOrNotFound(id) ==
    IF id \in StoreKeys(store)
    THEN [fn |-> "deleteTaskById", id |-> id, value |-> Undefined]
    ELSE [fn |-> "rejected", of |-> "deleteTaskById", id |-> id]
deleted(id) == [fn |-> "deleteTaskById", id |-> id, value |-> Undefined]

\* deleteTaskById, request.onsuccess, and confirmDeleteTask's continuation
DeleteSuccess(i) ==
    LET id == txs[i].id IN
    /\ CanStart(i)
    /\ txs[i].fn = "delete"
    /\ store' = StoreDelete(store, id)
    /\ taskCache' = cacheAfterDelete(id)
    /\ ret' = deleted(id)
    /\ txs' = [txs EXCEPT ![i].phase = "committing", ![i].undo = StoreGet(store, id)]
    /\ last' = [last EXCEPT ![id] = Deleted]
    /\ prevAll' = NoList
    /\ IF txs[i].mounted
       THEN /\ tasks' = SelectSeq(tasks, LAMBDA t : t.id # id)
            /\ taskToDelete' = NoArg
       ELSE UNCHANGED <<tasks, taskToDelete>>
    /\ UNCHANGED <<dbPromise, envVars, fetched, upserted, page, isImportingRef, imp, orphan,
                   download, editorVars>>

\* the readwrite transaction commits once its request has succeeded
TxComplete ==
    /\ txs # <<>>
    /\ txs[1].phase = "committing"
    /\ txs' = Tail(txs)
    /\ ret' = NoRet
    /\ UNCHANGED <<dbPromise, store, taskCache, envVars, histVars, pageVars>>

\* another tab of the application, on the same database, deletes a task: the
\* record leaves the store and this tab's cache keeps what it holds.  Its
\* transaction commutes with the creation of a transaction of this tab, so it
\* is taken while this tab has none
OtherTabDelete(id) ==
    /\ id \in StoreKeys(store)
    /\ txs = <<>>
    /\ store' = StoreDelete(store, id)
    /\ last' = [last EXCEPT ![id] = OtherTab]
    /\ prevAll' = NoList
    /\ ret' = NoRet
    /\ UNCHANGED <<dbPromise, taskCache, txs, envVars, fetched, upserted, pageVars>>

\* ------------------------------------------------------------- failures
\* the store function whose runTransaction a transaction belongs to
FnOf(tx) ==
    CASE tx.fn = "getAll" -> "getAllTasks"
      [] tx.fn = "get" -> "getTaskById"
      [] tx.fn = "put" -> "upsertTask"
      [] tx.fn = "delete" -> "deleteTaskById"

\* reject(error) in runTransaction, and the caller's continuation: the catch
\* and finally of handleImport; the other callers have none
rejectedAsNotFound(tx) ==
    [fn |-> FnOf(tx), id |-> tx.id, path |-> "store", value |-> Undefined]
rejected(tx) == [fn |-> "rejected", of |-> FnOf(tx), id |-> tx.id]

Rejection(i) ==
    /\ ret' = rejected(txs[i])
    /\ txs' = RemoveAt(txs, i)
    /\ IF txs[i].caller \in {"handleImport", "refreshTasks"}
       THEN importEnds(ImportOf(txs[i]))
       ELSE UNCHANGED <<imp, orphan, isImportingRef>>
    /\ UNCHANGED <<envVars, page, tasks, taskToDelete, download, editorVars>>

\* indexedDB.open, request.onerror: dbPromise is rejected and stays so
OpenError ==
    /\ dbPromise = "pending"
    /\ dbPromise' = "rejected"
    /\ txs' = [i \in 1..Len(txs) |-> [txs[i] EXCEPT !.phase = "failed"]]
    /\ ret' = NoRet
    /\ UNCHANGED <<store, taskCache, envVars, histVars, pageVars>>

\* runTransaction: `await openDb()` throws and the catch rejects, the calls
\* in their order
OpenRejects(i) ==
    /\ i \in 1..Len(txs)
    /\ txs[i].phase = "failed"
    /\ \A j \in 1..(i - 1) : txs[j].phase # "failed"
    /\ Rejection(i)
    /\ UNCHANGED <<dbPromise, store, taskCache, histVars>>

\* the request of a transaction fails: its error event reaches tx.onerror,
\* which rejects, and the transaction aborts with nothing written
RequestError(i) ==
    /\ CanStart(i)
    /\ Rejection(i)
    /\ UNCHANGED <<dbPromise, store, taskCache, histVars>>

\* what the store holds once the write of an aborted transaction is undone
StoreRolledBack(tx) ==
    IF tx.undo = Undefined THEN StoreDelete(store, tx.id) ELSE StorePut(store, tx.undo)

\* a readwrite transaction whose request has succeeded fails to commit: the
\* store undoes its write.  The promise is resolved already, nothing hears
\* of the abort, and the cache keeps what request.onsuccess has set
CommitError ==
    /\ txs # <<>>
    /\ txs[1].phase = "committing"
    /\ store' = StoreRolledBack(txs[1])
    /\ txs' = Tail(txs)
    /\ ret' = [fn |-> "aborted", of |-> FnOf(txs[1]), id |-> txs[1].id,
               undo |-> txs[1].undo]
    /\ UNCHANGED <<dbPromise, taskCache, envVars, histVars, pageVars>>

\* ------------------------------------------------------ version changes
\* what another tab can ask of the database that needs the connections of
\* this tab closed: to open it with a higher version, and to delete it
VersionRequests == {"upgrade", "delete"}

\* the version the other tab's code opens the database with
NewerVersion == DB_VERSION + 1

\* db.close(): the transactions of the connection are left to complete, and
\* the connection is closed once they have
ClosingAborts(q) ==
    [i \in 1..Len(q) |-> [q[i] EXCEPT !.closing = TRUE, !.phase = "failed"]]
Closing(q) == [i \in 1..Len(q) |-> [q[i] EXCEPT !.closing = TRUE]]

\* db.onversionchange (tasks-db.ts:39): db.close() and dbPromise = null.  The
\* event reaches a connection that is open, which is one whose open request
\* has succeeded
dbPromiseOnVersionChange == "null"

onversionchange(request) ==
    /\ dbPromise = "resolved"
    /\ idb.request = "none"
    /\ request = "upgrade" => idb.version < NewerVersion
    /\ idb' = [idb EXCEPT !.request = request, !.notified = TRUE]
    /\ dbPromise' = dbPromiseOnVersionChange
    /\ txs' = Closing(txs)
    /\ ret' = NoRet
    /\ UNCHANGED <<store, taskCache, clock, usedIds, nUpserts, histVars, pageVars>>

\* the other tab asks while this tab has no connection: none has been opened,
\* the open request has failed, or the connection is closing or closed
OtherTabRequest(request) ==
    /\ dbPromise \in {"null", "rejected"}
    /\ idb.request = "none"
    /\ request = "upgrade" => idb.version < NewerVersion
    /\ idb' = [idb EXCEPT !.request = request]
    /\ ret' = NoRet
    /\ UNCHANGED <<storeVars, clock, usedIds, nUpserts, histVars, pageVars>>

\* the request of the other tab is carried out once no connection of this
\* tab is left: the database gets the higher version, or is deleted with
\* its records
OtherTabRequestDone ==
    /\ idb.request # "none"
    /\ \A i \in 1..Len(txs) : ~ txs[i].closing
    /\ idb' = [idb EXCEPT !.version = IF idb.request = "upgrade" THEN NewerVersion ELSE 0,
                          !.request = "none"]
    /\ store' = IF idb.request = "delete" THEN {} ELSE store
    /\ last' = [id \in Ids |->
                  IF idb.request = "delete" /\ id \in StoreKeys(store)
                  THEN OtherTab ELSE last[id]]
    /\ prevAll' = NoList
    /\ ret' = NoRet
    /\ UNCHANGED <<dbPromise, taskCache, txs, clock, usedIds, nUpserts, fetched,
                   upserted, pageVars>>

\* indexedDB.open(DB_NAME, DB_VERSION), request.onerror with a VersionError:
\* the database has a higher version than the one asked for
OpenVersionError ==
    /\ idb.request = "none"
    /\ idb.version > DB_VERSION
    /\ OpenError

\* ------------------------------------------------------------ the pages
Tick ==
    /\ clock < MaxClock
    /\ clock' = clock + 1
    /\ ret' = NoRet
    /\ UNCHANGED <<usedIds, nUpserts, idb, storeVars, histVars, pageVars>>

\* the closures of an unmounted component: mounted = false
Unmounted(q) == [i \in 1..Len(q) |-> [q[i] EXCEPT !.mounted = FALSE]]

\* the timers pending once TaskEditorPage has unmounted: the cleanup of the
\* autosave effect runs, and nothing calls upsertTask for the task it held
timerAfterUnmountStillPending == timer
timerAfterUnmount == clearTimeout(timer)

\* leaving a page: the cleanups of Home's and TaskEditorPage's effects.  A
\* handleImport call of the Home goes on without it; the model follows one
\* such call at a time
Leave ==
    /\ page \in {"home", "editor"}
    /\ imp.pc = "idle" \/ orphan.pc = "idle"
    /\ page' = "none"
    /\ txs' = Unmounted(txs)
    /\ tasks' = <<>>
    /\ taskToDelete' = NoArg
    /\ isImportingRef' = FALSE
    /\ IF imp.pc # "idle"
       THEN orphan' = [imp EXCEPT !.live = FALSE] /\ imp' = Idle
       ELSE UNCHANGED <<imp, orphan>>
    /\ UNCHANGED download
    /\ taskId' = NoId
    /\ task' = NullTask
    /\ skipFirstSaveRef' = TRUE
    /\ timer' = timerAfterUnmount
    /\ editorPc' = "unmounted"
    /\ isCompleteConfirmOpen' = FALSE
    /\ ret' = NoRet
    /\ UNCHANGED <<envVars, dbPromise, store, taskCache, histVars>>

\* Home mounts: loadTasks()
OpenHome ==
    /\ page = "none"
    /\ page' = "home"
    /\ getAllTasks("loadTasks")
    /\ UNCHANGED <<envVars, homeVars, editorVars>>

\* Home, window focus: loadTasks()
HomeFocus ==
    /\ page = "home"
    /\ getAllTasks("loadTasks")
    /\ UNCHANGED <<envVars, page, homeVars, editorVars>>

openTaskMenu(i) ==
    /\ page = "home"
    /\ i \in 1..Len(tasks)
    /\ taskToDelete' = tasks[i]
    /\ ret' = NoRet
    /\ UNCHANGED <<envVars, storeVars, histVars, page, tasks, isImportingRef, imp, orphan,
                   download, editorVars>>

confirmDeleteTask ==
    /\ page = "home"
    /\ taskToDelete # NoArg
    /\ deleteTaskById(taskToDelete.id, "confirmDeleteTask")
    /\ UNCHANGED <<envVars, page, homeVars, editorVars>>

\* handleExport up to `await getAllTasks()`; what follows is in GetAllSuccess
handleExport ==
    /\ page = "home"
    /\ getAllTasks("handleExport")
    /\ UNCHANGED <<envVars, page, homeVars, editorVars>>

\* handleImport up to `await file.text()`, for a file that holds parsed
handleImportText(parsed) ==
    /\ page = "home"
    /\ ~ isImportingRef
    /\ isImportingRef' = TRUE
    /\ imp' = [pc |-> "reading", rest |-> sourceTaskElements(parsed), live |-> TRUE,
               file |-> sourceTaskElements(parsed), count |-> 0, parsed |-> parsed]
    /\ ret' = NoRet
    /\ UNCHANGED <<envVars, storeVars, histVars, page, tasks, taskToDelete, orphan,
                   download, editorVars>>

\* handleImport while isImportingRef.current is set: it returns before it
\* reads the file
ignored == [fn |-> "handleImport", value |-> Undefined]

handleImportWhileImporting ==
    /\ page = "home"
    /\ isImportingRef
    /\ ret' = ignored
    /\ UNCHANGED <<envVars, storeVars, histVars, pageVars>>

\* handleImport for a file that holds the array file
handleImport(file) == handleImportText(JsonArray(file))

\* handleImport from JSON.parse to the first await of the loop, or through
\* its catch and finally when it throws before the loop
handleImportParsedOf(cur) ==
    /\ cur.pc = "reading"
    /\ IF ReachesLoop(cur.parsed)
       THEN /\ dbPromise' = dbPromiseAfterOpenDb
            /\ importLoop(cur, txs, cur.count)
            /\ UNCHANGED isImportingRef
       ELSE /\ importEnds(cur)
            /\ UNCHANGED <<dbPromise, txs, usedIds, nUpserts>>
    /\ ret' = NoRet
    /\ UNCHANGED <<clock, idb, store, taskCache, histVars, page, tasks, taskToDelete,
                   download, editorVars>>

\* the step of the call of the mounted Home, or of the call of a Home that
\* has unmounted
handleImportParsed == \E cur \in {imp, orphan} : handleImportParsedOf(cur)

\* TaskEditorPage mounts: the initializer of the task state, which is
\* createTaskDraft() without a taskId, and with one getTaskByIdFromCache(taskId)
\* in one version of the editor and null in the other
OpenEditor(tid) ==
    /\ page = "none"
    /\ page' = "editor"
    /\ taskId' = tid
    /\ skipFirstSaveRef' = TRUE
    /\ UNCHANGED timer
    /\ editorPc' = "mounting"
    /\ isCompleteConfirmOpen' = FALSE
    /\ IF tid = NoId
       THEN \E id \in Ids \ usedIds :
               /\ task' = createTaskDraft(id, clock)
               /\ usedIds' = usedIds \cup {id}
               /\ ret' = NoRet
               /\ UNCHANGED <<storeVars, histVars>>
       ELSE /\ usedIds' = usedIds \cup {tid}
            /\ \/ /\ getTaskByIdFromCache(tid)
                  /\ task' = IF ret'.value # Undefined THEN ret'.value ELSE NullTask
               \/ /\ task' = NullTask
                  /\ ret' = NoRet
                  /\ UNCHANGED <<storeVars, histVars>>
    /\ UNCHANGED <<clock, idb, nUpserts, homeVars>>

\* TaskEditorPage, the effects of the first render: loadTask and the autosave
\* effect, which lets the first task it sees pass without a timer
EditorEffects ==
    /\ page = "editor"
    /\ editorPc = "mounting"
    /\ editorPc' = "ready"
    /\ IF taskId # NoId /\ task = NullTask
       THEN \/ /\ getTaskByIdCached(taskId)
               /\ setTask(ret'.value)
            \/ /\ getTaskByIdMiss(taskId, "loadTask")
               /\ UNCHANGED <<task, skipFirstSaveRef, timer>>
       ELSE /\ skipFirstSaveRef' = FALSE
            /\ ret' = NoRet
            /\ UNCHANGED <<storeVars, histVars, task, timer>>
    /\ UNCHANGED <<envVars, page, homeVars, taskId, isCompleteConfirmOpen>>

EditInputs ==
    { [title |-> ""], [title |-> "a"], [startDate |-> NoDate], [startDate |-> 1] }

updateField(change) ==
    /\ page = "editor"
    /\ editorPc = "ready"
    /\ task # NullTask
    /\ setTask(Spread(task, change))
    /\ ret' = NoRet
    /\ UNCHANGED <<envVars, storeVars, histVars, page, homeVars, taskId, editorPc,
                   isCompleteConfirmOpen>>

handleCompleteButtonClick ==
    /\ page = "editor"
    /\ editorPc = "ready"
    /\ taskId # NoId
    /\ task # NullTask
    /\ IF task.completed
       THEN /\ setTask(Spread(task, [completed |-> FALSE, completedAt |-> NoDate]))
            /\ UNCHANGED isCompleteConfirmOpen
       ELSE /\ isCompleteConfirmOpen' = TRUE
            /\ UNCHANGED <<task, timer, skipFirstSaveRef>>
    /\ ret' = NoRet
    /\ UNCHANGED <<envVars, storeVars, histVars, page, homeVars, taskId, editorPc>>

handleConfirmComplete ==
    /\ page = "editor"
    /\ isCompleteConfirmOpen
    /\ task # NullTask
    /\ setTask(Spread(task, [completed |-> TRUE, completedAt |-> clock]))
    /\ isCompleteConfirmOpen' = FALSE
    /\ ret' = NoRet
    /\ UNCHANGED <<envVars, storeVars, histVars, page, homeVars, taskId, editorPc>>

\* a pending autosave timer fires: upsertTask(task), with the task of the render
\* that has set the timer
AutosaveTimer ==
    /\ timer # <<>>
    /\ nUpserts < MaxUpserts
    /\ nUpserts' = nUpserts + 1
    /\ upsertTask(Head(timer), "autosave")
    /\ timer' = Tail(timer)
    /\ UNCHANGED <<clock, idb, usedIds, page, homeVars, taskId, task, skipFirstSaveRef,
                   editorPc, isCompleteConfirmOpen>>

\* handleReload: a new session over the same database
handleReload ==
    /\ txs = <<>>
    /\ imp.pc = "idle"
    /\ orphan.pc = "idle"
    /\ dbPromise' = "null"
    /\ taskCache' = EmptyMap
    /\ txs' = <<>>
    /\ ret' = NoRet
    /\ page' = "none"
    /\ tasks' = <<>>
    /\ taskToDelete' = NoArg
    /\ isImportingRef' = FALSE
    /\ imp' = Idle
    /\ orphan' = Idle
    /\ taskId' = NoId
    /\ task' = NullTask
    /\ skipFirstSaveRef' = TRUE
    /\ timer' = <<>>
    /\ editorPc' = "unmounted"
    /\ isCompleteConfirmOpen' = FALSE
    /\ fetched' = {}
    /\ upserted' = {}
    /\ last' = [id \in Ids |-> NoWrite]
    /\ prevAll' = NoList
    /\ UNCHANGED <<envVars, store, download>>

\* -------------------------------------------------------- specification
\* a task an earlier session has stored
EarlierTask == nextTaskOf([createTaskDraft(1, 1) EXCEPT !.title = "a"], 1)

\* a new session, over an empty database or over one an earlier session has
\* written
Init ==
    /\ clock = 1
    /\ nUpserts = 0
    /\ store \in {{}, {EarlierTask}}
    /\ idb = [version |-> IF store = {} THEN 0 ELSE DB_VERSION, request |-> "none",
              notified |-> FALSE]
    /\ usedIds = StoreKeys(store)
    /\ dbPromise = "null"
    /\ taskCache = EmptyMap
    /\ txs = <<>>
    /\ ret = NoRet
    /\ fetched = {}
    /\ upserted = {}
    /\ last = [id \in Ids |-> NoWrite]
    /\ prevAll = NoList
    /\ page = "none"
    /\ tasks = <<>>
    /\ taskToDelete = NoArg
    /\ isImportingRef = FALSE
    /\ imp = Idle
    /\ orphan = Idle
    /\ download = NoDownload
    /\ taskId = NoId
    /\ task = NullTask
    /\ skipFirstSaveRef = TRUE
    /\ timer = <<>>
    /\ editorPc = "unmounted"
    /\ isCompleteConfirmOpen = FALSE

\* ------------------------------------------- the store and its callers
\* The caller of this specification awaits each call: it makes the next one
\* once the last has resolved, which is when its request has succeeded and
\* before its transaction completes
Awaited == \A k \in 1..Len(txs) : txs[k].phase = "committing"

\* What the callers pass to upsertTask.  The editor passes the task it shows,
\* with the user's changes: a record it got from the cache or a draft, for a
\* new id or for the id of its route.  The import passes importedTask of an
\* element of the file, under a new id
EditorChanges ==
    { [startDate |-> 1] }

EditorBases(ids) ==
    {taskCache[k] : k \in DOMAIN taskCache}
        \cup {createTaskDraft(id, clock) : id \in ids}

EditorRecords(ids) ==
    EditorBases(ids) \cup {Spread(b, ch) : b \in EditorBases(ids), ch \in EditorChanges}

ImportRecords(ids) ==
    {importedTask(e, createTaskDraft(id, clock)) :
        e \in {x \in FileElements : hasTaskLikeField(x)}, id \in ids \ usedIds}

\* createTaskDraft(given), or createTaskDraft() when given is NoId: the id is
\* given ?? crypto.randomUUID(), and a UUID is one nothing has used
CallCreateTaskDraft(given) ==
    /\ \E id \in (IF given = NoId THEN Ids \ usedIds ELSE {given}) :
          /\ ret' = [fn |-> "createTaskDraft", given |-> given,
                     value |-> createTaskDraft(id, clock)]
          /\ usedIds' = usedIds \cup {id}
    /\ UNCHANGED <<clock, idb, nUpserts, storeVars, histVars, pageVars>>

CallGetAllTasks ==
    /\ Awaited
    /\ getAllTasks("api")
    /\ UNCHANGED <<envVars, pageVars>>

CallGetTaskByIdFromCache(id) ==
    /\ Awaited
    /\ getTaskByIdFromCache(id)
    /\ UNCHANGED <<envVars, pageVars>>

CallGetTaskById(id) ==
    /\ Awaited
    /\ \/ getTaskByIdCached(id)
       \/ getTaskByIdMiss(id, "api")
    /\ UNCHANGED <<envVars, pageVars>>

CallUpsertTask(t, caller, budget) ==
    /\ Awaited
    /\ nUpserts < budget
    /\ nUpserts' = nUpserts + 1
    /\ upsertTask(t, caller)
    /\ usedIds' = usedIds \cup {t.id}
    /\ UNCHANGED <<clock, idb, pageVars>>

CallDeleteTaskById(id) ==
    /\ Awaited
    /\ deleteTaskById(id, "api")
    /\ UNCHANGED <<envVars, pageVars>>

Next ==
    \/ Tick
    \/ OpenSuccess
    \/ \E i \in 1..Len(txs) : GetAllSuccess(i)
    \/ \E i \in 1..Len(txs) : GetSuccess(i)
    \/ \E i \in 1..Len(txs) : PutSuccess(i)
    \/ \E i \in 1..Len(txs) : DeleteSuccess(i)
    \/ TxComplete
    \/ \E id \in SessionIds : OtherTabDelete(id)
    \/ CallGetAllTasks
    \/ \E id \in SessionIds : CallGetTaskByIdFromCache(id)
    \/ \E id \in SessionIds : CallGetTaskById(id)
    \/ \E t \in EditorRecords(SessionIds) : CallUpsertTask(t, "editor", MaxUpserts)
    \/ \E t \in ImportRecords(SessionIds) : CallUpsertTask(t, "import", MaxUpserts)
    \/ \E id \in SessionIds : CallDeleteTaskById(id)

Spec == Init /\ [][Next]_vars

\* --------------------------------------------- the store under failures
\* the same caller over a database that can fail to open, fail a request and
\* fail to commit
NextFault ==
    \/ OpenSuccess
    \/ OpenError
    \/ \E i \in 1..Len(txs) : OpenRejects(i)
    \/ \E i \in 1..Len(txs) : GetAllSuccess(i)
    \/ \E i \in 1..Len(txs) : GetSuccess(i)
    \/ \E i \in 1..Len(txs) : PutSuccess(i)
    \/ \E i \in 1..Len(txs) : DeleteSuccess(i)
    \/ \E i \in 1..Len(txs) : RequestError(i)
    \/ TxComplete
    \/ CommitError
    \/ CallGetAllTasks
    \/ \E id \in SessionIds : CallGetTaskById(id)
    \/ \E t \in EditorRecords(SessionIds) : CallUpsertTask(t, "editor", MaxUpserts)
    \/ \E id \in SessionIds : CallDeleteTaskById(id)

SpecFault == Init /\ [][NextFault]_vars

\* ------------------------------------------------- drafts and writes
\* drafts made while records are written and listed
NextDraft ==
    \/ Tick
    \/ OpenSuccess
    \/ \E i \in 1..Len(txs) : GetAllSuccess(i)
    \/ \E i \in 1..Len(txs) : PutSuccess(i)
    \/ TxComplete
    \/ CallGetAllTasks
    \/ \E given \in SessionIds \cup {NoId} : CallCreateTaskDraft(given)
    \/ \E t \in EditorRecords(SessionIds) : CallUpsertTask(t, "editor", MaxUpserts)

SpecDraft == Init /\ [][NextDraft]_vars

\* the functions of the store and createTaskDraft under a caller that awaits
\* each call, while time passes
NextFrame ==
    \/ Tick
    \/ OpenSuccess
    \/ \E i \in 1..Len(txs) : GetAllSuccess(i)
    \/ \E i \in 1..Len(txs) : GetSuccess(i)
    \/ \E i \in 1..Len(txs) : PutSuccess(i)
    \/ \E i \in 1..Len(txs) : DeleteSuccess(i)
    \/ TxComplete
    \/ CallGetAllTasks
    \/ \E id \in SessionIds : CallGetTaskById(id)
    \/ \E t \in EditorRecords(SessionIds) : CallUpsertTask(t, "editor", MaxUpserts)
    \/ \E id \in SessionIds : CallDeleteTaskById(id)
    \/ CallCreateTaskDraft(NoId)

SpecFrame == Init /\ [][NextFrame]_vars

\* ------------------------------------------------------ the list page
\* Home alone: the list and the imports
NextImport ==
    \/ Tick
    \/ OpenSuccess
    \/ \E i \in 1..Len(txs) : GetAllSuccess(i)
    \/ \E i \in 1..Len(txs) : PutSuccess(i)
    \/ TxComplete
    \/ OpenHome
    \/ \E file \in ImportFiles : handleImport(file)
    \/ handleImportParsed

SpecImport == Init /\ [][NextImport]_vars

\* -------------------------------------------------------- the editor
\* the editor, opened by its address for a new task or for the task of an
\* id, with its field edits and its autosave
NextEditor ==
    \/ Tick
    \/ OpenSuccess
    \/ \E i \in 1..Len(txs) : GetSuccess(i)
    \/ \E i \in 1..Len(txs) : PutSuccess(i)
    \/ TxComplete
    \/ Leave
    \/ \E tid \in SessionIds \cup {NoId} : OpenEditor(tid)
    \/ EditorEffects
    \/ \E change \in EditorChanges : updateField(change)
    \/ AutosaveTimer

SpecEditor == Init /\ [][NextEditor]_vars

\* ------------------------------------------- the export and the import
\* Home with its export, the import of a file with a completed task and of
\* the exported file, and another tab that deletes
NextRoundTrip ==
    \/ Tick
    \/ OpenSuccess
    \/ \E i \in 1..Len(txs) : GetAllSuccess(i)
    \/ \E i \in 1..Len(txs) : PutSuccess(i)
    \/ TxComplete
    \/ \E id \in Ids : OtherTabDelete(id)
    \/ OpenHome
    \/ handleExport
    \/ handleImport(<<ImageElement>>)
    \/ download.valid /\ handleImport(download.tasks)
    \/ handleImportParsed

SpecRoundTrip == Init /\ [][NextRoundTrip]_vars

\* ------------------------------------------- calls that are not awaited
\* The callers of these specifications do not wait: they call while up to
\* MaxInFlight calls are in flight
StartGetAllTasks(caller) ==
    /\ runTransactionWithin(MaxInFlight, "getAll", NoId, NoArg, NoArg, caller)
    /\ ret' = NoRet
    /\ UNCHANGED <<envVars, pageVars>>

StartGetTaskById(id) ==
    /\ \/ getTaskByIdCached(id)
       \/ /\ id \notin DOMAIN taskCache
          /\ runTransactionWithin(MaxInFlight, "get", id, NoArg, NoArg, "api")
          /\ ret' = NoRet
    /\ UNCHANGED <<envVars, pageVars>>

StartUpsertTask(t) ==
    /\ nUpserts < MaxUpserts
    /\ nUpserts' = nUpserts + 1
    /\ runTransactionWithin(MaxInFlight, "put", t.id, t, nextTaskOf(t, clock), "editor")
    /\ ret' = NoRet
    /\ usedIds' = usedIds \cup {t.id}
    /\ UNCHANGED <<clock, idb, pageVars>>

StartDeleteTaskById(id) ==
    /\ runTransactionWithin(MaxInFlight, "delete", id, NoArg, NoArg, "api")
    /\ ret' = NoRet
    /\ UNCHANGED <<envVars, pageVars>>

\* ------------------------------------- the store and the other tab's code
\* the functions of the store over a database that another tab opens with a
\* higher version or deletes; the writes and the deletes are of one id
WrittenIds == {1}

NextVersion ==
    \/ OpenSuccess
    \/ OpenVersionError
    \/ \E i \in 1..Len(txs) : OpenRejects(i)
    \/ \E i \in 1..Len(txs) : GetAllSuccess(i)
    \/ \E i \in 1..Len(txs) : GetSuccess(i)
    \/ \E i \in 1..Len(txs) : PutSuccess(i)
    \/ \E i \in 1..Len(txs) : DeleteSuccess(i)
    \/ TxComplete
    \/ \E request \in VersionRequests : onversionchange(request)
    \/ \E request \in VersionRequests : OtherTabRequest(request)
    \/ OtherTabRequestDone
    \/ StartGetAllTasks("api")
    \/ \E id \in SessionIds : StartGetTaskById(id)
    \/ \E t \in EditorRecords(WrittenIds) : StartUpsertTask(t)
    \/ \E id \in WrittenIds : StartDeleteTaskById(id)

SpecVersion == Init /\ [][NextVersion]_vars

\* ------------------------------------------------ calls that interleave
\* the functions of the store called without waiting, over a database that
\* is this tab's alone and does not fail
NextInterleave ==
    \/ OpenSuccess
    \/ \E i \in 1..Len(txs) : GetAllSuccess(i)
    \/ \E i \in 1..Len(txs) : GetSuccess(i)
    \/ \E i \in 1..Len(txs) : PutSuccess(i)
    \/ \E i \in 1..Len(txs) : DeleteSuccess(i)
    \/ TxComplete
    \/ StartGetAllTasks("api")
    \/ \E id \in SessionIds : StartGetTaskById(id)
    \/ \E t \in EditorRecords(SessionIds) : StartUpsertTask(t)
    \/ \E id \in SessionIds : StartDeleteTaskById(id)

SpecInterleave == Init /\ [][NextInterleave]_vars

\* Home, which keeps the list it received, fetching the list while a write
\* of one id is in flight and the other way round
NextStaleList ==
    \/ Tick
    \/ OpenSuccess
    \/ \E i \in 1..Len(txs) : GetAllSuccess(i)
    \/ \E i \in 1..Len(txs) : PutSuccess(i)
    \/ TxComplete
    \/ OpenHome
    \/ page = "home" /\ StartGetAllTasks("loadTasks")
    \/ \E t \in EditorRecords(WrittenIds) : StartUpsertTask(t)

SpecStaleList == Init /\ [][NextStaleList]_vars

\* The editor of one route under edits that differ, so that a timer a later
\* edit replaces and the timer that replaces it hold different tasks
AutosaveChanges == { [title |-> ""], [title |-> "a"], [startDate |-> 1] }

NextAutosave ==
    \/ Tick
    \/ OpenSuccess
    \/ \E i \in 1..Len(txs) : GetSuccess(i)
    \/ \E i \in 1..Len(txs) : PutSuccess(i)
    \/ TxComplete
    \/ Leave
    \/ \E tid \in WrittenIds : OpenEditor(tid)
    \/ EditorEffects
    \/ \E change \in AutosaveChanges : updateField(change)
    \/ AutosaveTimer

SpecAutosave == Init /\ [][NextAutosave]_vars

\* Home mounts while calls of an earlier Home may be in flight: loadTasks()
OpenHomeAgain ==
    /\ page = "none"
    /\ page' = "home"
    /\ runTransactionWithin(MaxInFlight, "getAll", NoId, NoArg, NoArg, "loadTasks")
    /\ ret' = NoRet
    /\ UNCHANGED <<envVars, homeVars, editorVars>>

\* the files of this specification: one task, two tasks, and no JSON
ReimportFiles ==
    { JsonArray(<<[title |-> "a"]>>), JsonArray(<<[title |-> "a"], [title |-> "b"]>>),
      [json |-> "syntaxError"] }

\* Home left and opened again while it imports, over a store whose requests
\* can fail
NextReimport ==
    \/ OpenSuccess
    \/ \E i \in 1..Len(txs) : GetAllSuccess(i)
    \/ \E i \in 1..Len(txs) : PutSuccess(i)
    \/ \E i \in 1..Len(txs) : RequestError(i)
    \/ TxComplete
    \/ Leave
    \/ OpenHomeAgain
    \/ \E parsed \in ReimportFiles : handleImportText(parsed)
    \/ handleImportParsed
    \/ handleImportWhileImporting

SpecReimport == Init /\ [][NextReimport]_vars

\* -------------------------------------------------- files that are off
\* data URLs that do not decode: one whose payload is no base64 and one
\* without a payload
BadBase64DataUrl == [typeof |-> "dataUrl", mime |-> "image/png", payload |-> "!"]
NoPayloadDataUrl == [typeof |-> "dataUrl", mime |-> "image/png", payload |-> ""]

\* tasks whose images do not decode, none of them, one of two, and one that
\* is a number
BrokenImageElements ==
    { [title |-> "c", imageBlobDataUrls |-> <<BadBase64DataUrl>>,
       imageBlobDataUrl |-> NoPayloadDataUrl],
      [title |-> "d", imageBlobDataUrls |-> <<BadBase64DataUrl, PngDataUrl>>],
      [title |-> "e", imageBlobDataUrl |-> [typeof |-> "number"]] }

\* what a file can hold: no JSON, null, a number, an object without tasks, an
\* object whose tasks is a string, an object whose tasks is an array, and an
\* array
MalformedFiles ==
    { [json |-> "syntaxError"], [json |-> "null"], [json |-> "number"],
      [json |-> "object"], JsonObject([json |-> "string"]) }
        \cup {JsonObject(JsonArray(<<e>>)) : e \in BrokenImageElements}
        \cup {JsonArray(f) : f \in SeqsUpTo(BrokenImageElements, MaxFileLen)}

\* Home alone, given such files
NextMalformed ==
    \/ Tick
    \/ OpenSuccess
    \/ \E i \in 1..Len(txs) : GetAllSuccess(i)
    \/ \E i \in 1..Len(txs) : PutSuccess(i)
    \/ TxComplete
    \/ OpenHome
    \/ \E parsed \in MalformedFiles : handleImportText(parsed)
    \/ handleImportParsed

SpecMalformed == Init /\ [][NextMalformed]_vars

\* ------------------------------------------------ the store as a list
\* the writes and the list fetches alone, with room for three records
NextSort ==
    \/ Tick
    \/ OpenSuccess
    \/ \E i \in 1..Len(txs) : GetAllSuccess(i)
    \/ \E i \in 1..Len(txs) : PutSuccess(i)
    \/ TxComplete
    \/ CallGetAllTasks
    \/ \E t \in EditorRecords(Ids) : CallUpsertTask(t, "editor", MaxSortUpserts)
    \/ \E t \in ImportRecords(Ids) : CallUpsertTask(t, "import", MaxSortUpserts)

SpecSort == Init /\ [][NextSort]_vars

\* ------------------------------------------------- the pages as callers
NextApp ==
    \/ Tick
    \/ OpenSuccess
    \/ \E i \in 1..Len(txs) : GetAllSuccess(i)
    \/ \E i \in 1..Len(txs) : GetSuccess(i)
    \/ \E i \in 1..Len(txs) : PutSuccess(i)
    \/ \E i \in 1..Len(txs) : DeleteSuccess(i)
    \/ TxComplete
    \/ Leave
    \/ OpenHome
    \/ HomeFocus
    \/ \E i \in 1..Len(tasks) : openTaskMenu(i)
    \/ confirmDeleteTask
    \/ \E file \in Files : handleImport(file)
    \/ handleImportParsed
    \/ \E tid \in Ids \cup {NoId} : OpenEditor(tid)
    \/ EditorEffects
    \/ \E change \in EditInputs : updateField(change)
    \/ handleCompleteButtonClick
    \/ handleConfirmComplete
    \/ AutosaveTimer
    \/ handleReload

SpecApp == Init /\ [][NextApp]_vars

\* ---------------------------------------------------------- properties
\* the same record but for updatedAt
EqualExceptUpdatedAt(a, b) ==
    /\ DOMAIN a = DOMAIN b
    /\ \A f \in (DOMAIN a) \ {"updatedAt"} : a[f] = b[f]

\* the transactions a step has created
CreatedTxs == IF Len(txs') > Len(txs) THEN {txs'[Len(txs')]} ELSE {}

\* C1: once upsertTask(R) has resolved, and while no other write or delete of
\* R.id has followed, getTaskById(R.id) creates no transaction: it answers from
\* the cache, leaving the store, the cache and the connection as they are, with
\* a record equal to R in every field but updatedAt
C1_GetAfterUpsert ==
    [][ /\ \A tx \in CreatedTxs : tx.fn = "get" => last[tx.id].kind # "put"
        /\ (ret'.fn = "getTaskById" /\ ret'.path = "cache"
                /\ last[ret'.id].kind = "put")
              => /\ EqualExceptUpdatedAt(ret'.value, last[ret'.id].arg)
                 /\ UNCHANGED storeVars ]_vars

C1_Witness ==
    /\ ret.fn = "getTaskById"
    /\ ret.path = "cache"
    /\ last[ret.id].kind = "put"
    /\ ret.value.updatedAt # last[ret.id].arg.updatedAt

\* C2: once deleteTaskById(id) has resolved, and until another write of id
\* resolves, id is in neither the store nor the cache, and a getTaskById(id)
\* resolves to undefined
C2_AbsentAfterDelete ==
    /\ [](\A id \in Ids : last[id].kind = "del"
                => id \notin StoreKeys(store) /\ id \notin DOMAIN taskCache)
    /\ [][ (ret'.fn = "getTaskById" /\ last[ret'.id].kind = "del")
              => ret'.value = Undefined ]_vars

C2_Witness ==
    /\ ret.fn = "getTaskById"
    /\ ret.value = Undefined
    /\ last[ret.id].kind = "del"
    /\ ret.id \in fetched \cup upserted

\* C3, as stated: getTaskByIdFromCache(id) returns undefined for every id that
\* neither getAllTasks nor getTaskById has fetched in the current session
C3_UndefinedUnlessFetched ==
    (ret.fn = "getTaskByIdFromCache" /\ ret.id \notin fetched)
        => ret.value = Undefined

\* C3, amended: getTaskByIdFromCache(id) returns undefined for every id that,
\* in the current session, neither getAllTasks nor getTaskById has fetched and
\* no resolved upsertTask has written
C3_UndefinedUnlessFetchedOrUpserted ==
    (ret.fn = "getTaskByIdFromCache" /\ ret.id \notin fetched \cup upserted)
        => ret.value = Undefined

C3_Witness ==
    /\ ret.fn = "getTaskByIdFromCache"
    /\ ret.id \notin fetched \cup upserted
    /\ ret.id \in StoreKeys(store)
    /\ ret.value = Undefined

\* C4: getTaskByIdFromCache opens no database, starts no transaction and
\* changes neither the cache nor the store
C4_FromCacheTouchesNothing ==
    [][ ret'.fn = "getTaskByIdFromCache"
            => UNCHANGED <<dbPromise, txs, taskCache, store>> ]_vars

C4_Witness ==
    /\ ret.fn = "getTaskByIdFromCache"
    /\ dbPromise = "null"
    /\ store # {}
    /\ taskCache = EmptyMap
    /\ txs = <<>>

\* C5: the list getAllTasks resolves to is in ascending order of sort time:
\* no task comes before a task of a smaller sort time, where both have one
C5_AscendingSortTime ==
    ret.fn = "getAllTasks"
        => \A i, j \in 1..Len(ret.value) :
              (i < j /\ toSortTime(ret.value[i]) # NaN /\ toSortTime(ret.value[j]) # NaN)
                  => toSortTime(ret.value[i]) <= toSortTime(ret.value[j])

\* the positions of a list that hold a record with id k
PositionsOf(list, k) == {i \in 1..Len(list) : list[i].id = k}

\* C6: getAllTasks resolves to the records of the store, each once and
\* nothing else, a record written this session with the value of its last
\* resolved upsertTask and no record deleted this session; a second
\* getAllTasks with no write between the two resolves to the same list and
\* leaves the same cache
C6_ListIsStoreContent ==
    /\ [](ret.fn = "getAllTasks"
            => /\ \A r \in store : \E i \in 1..Len(ret.value) :
                     /\ ret.value[i] = r
                     /\ PositionsOf(ret.value, r.id) = {i}
               /\ \A i \in 1..Len(ret.value) : ret.value[i] \in store
               /\ \A id \in Ids :
                     /\ last[id].kind = "put"
                           => \E i \in 1..Len(ret.value) :
                                 /\ ret.value[i].id = id
                                 /\ EqualExceptUpdatedAt(ret.value[i], last[id].arg)
                     /\ last[id].kind = "del" => id \notin IdsOf(ret.value))
    /\ [][ (ret'.fn = "getAllTasks" /\ prevAll.valid)
              => /\ ret'.value = prevAll.list
                 /\ taskCache' = prevAll.cache ]_vars

C6_Witness ==
    /\ ret.fn = "getAllTasks"
    /\ prevAll.again
    /\ \E id \in Ids : last[id].kind = "put"
    /\ \E id \in Ids : last[id].kind = "del"
    /\ taskCache # EmptyMap

\* C7: when getAllTasks resolves, the cache holds the fetched records under
\* their ids and nothing else; no other step takes more than one entry out of
\* the cache
C7_CacheIsFetchedSet ==
    /\ [](ret.fn = "getAllTasks"
            => /\ DOMAIN taskCache = IdsOf(ret.value)
               /\ \A i \in 1..Len(ret.value) :
                     taskCache[ret.value[i].id] = ret.value[i])
    /\ [][ Cardinality((DOMAIN taskCache) \ (DOMAIN taskCache')) > 1
              => ret'.fn = "getAllTasks" ]_vars

C7_Witness ==
    /\ ret.fn = "getAllTasks"
    /\ ret.value # <<>>
    /\ \E id \in fetched \cup upserted :
          /\ last[id].kind = "other"
          /\ id \notin DOMAIN taskCache

\* C8: getTaskById with the id in the cache returns the cached record and
\* touches neither the connection nor the store; otherwise it creates one
\* transaction, a read of that key, and resolves to the stored record, which
\* it adds to the cache, or to undefined, which leaves the cache as it is
C8_GetByIdHitAndMiss ==
    [][ /\ \A tx \in CreatedTxs : tx.fn = "get"
              => /\ tx.id \notin DOMAIN taskCache
                 /\ txs' = Append(txs, tx)
                 /\ UNCHANGED <<store, taskCache>>
        /\ (ret'.fn = "getTaskById" /\ ret'.path = "cache")
              => /\ ret'.id \in DOMAIN taskCache
                 /\ ret'.value = taskCache[ret'.id]
                 /\ UNCHANGED storeVars
        /\ (ret'.fn = "getTaskById" /\ ret'.path = "store")
              => /\ \E i \in 1..Len(txs) :
                       /\ txs[i].fn = "get"
                       /\ txs[i].id = ret'.id
                       /\ txs' = RemoveAt(txs, i)
                 /\ UNCHANGED <<dbPromise, store>>
                 /\ IF ret'.id \in StoreKeys(store)
                    THEN /\ ret'.value \in store
                         /\ ret'.value.id = ret'.id
                         /\ taskCache' = MapSet(taskCache, ret'.id, ret'.value)
                    ELSE /\ ret'.value = Undefined
                         /\ taskCache' = taskCache ]_vars

C8_Witness ==
    /\ ret.fn = "getTaskById"
    /\ ret.path = "store"
    /\ ret.value # Undefined
    /\ ret.id \in DOMAIN taskCache
    /\ taskCache[ret.id] = ret.value

\* a draft as createTaskDraft made it
IsDraft(t) == t = createTaskDraft(t.id, t.createdAt)

\* C9: upsertTask leaves one record with the id of R in the store, R's, and
\* the other records as they were; a draft upserted any number of times is in
\* the next list once, not completed and with no completion time
C9_InsertOrReplace ==
    /\ [](\A r1, r2 \in store : r1.id = r2.id => r1 = r2)
    /\ [](ret.fn = "upsertTask" => ret.value \in store)
    /\ [][ ret'.fn = "upsertTask"
              => {r \in store' : r.id # ret'.id} = {r \in store : r.id # ret'.id} ]_vars
    /\ [](ret.fn = "getAllTasks"
            => \A id \in Ids :
                  (last[id].kind = "put" /\ IsDraft(last[id].arg))
                     => /\ Cardinality(PositionsOf(ret.value, id)) = 1
                        /\ \A i \in PositionsOf(ret.value, id) :
                              /\ ret.value[i].completed = FALSE
                              /\ \/ "completedAt" \notin DOMAIN ret.value[i]
                                 \/ ret.value[i].completedAt = NoDate)

C9_Witness ==
    /\ ret.fn = "getAllTasks"
    /\ \E id \in Ids :
          /\ last[id].kind = "put"
          /\ last[id].n >= 2
          /\ IsDraft(last[id].arg)
          /\ id \in IdsOf(ret.value)

\* the record upsertTask puts is its argument with updatedAt set to the clock
\* of the call, and that record is the one stored, cached and resolved to
PutsClockedRecord ==
    /\ [](\A i \in 1..Len(txs) : txs[i].fn = "put"
            => /\ txs[i].next = [txs[i].arg EXCEPT !.updatedAt = txs[i].next.updatedAt]
               /\ txs[i].next.updatedAt <= clock)
    /\ [][\A tx \in CreatedTxs : tx.fn = "put" => tx.next.updatedAt = clock]_vars
    /\ [](ret.fn = "upsertTask"
            => /\ ret.value \in store
               /\ ret.id \in DOMAIN taskCache
               /\ taskCache[ret.id] = ret.value
               /\ \E i \in 1..Len(txs) :
                     txs[i].phase = "committing" /\ txs[i].next = ret.value)

\* C10, as stated: upsertTask overwrites updatedAt with the clock, and the
\* value is not before R.updatedAt for a record of the editor or of the import
C10_UpdatedAtNotBefore ==
    /\ PutsClockedRecord
    /\ [](\A i \in 1..Len(txs) : txs[i].fn = "put"
            => txs[i].next.updatedAt >= txs[i].arg.updatedAt)

\* C10, amended: upsertTask overwrites updatedAt with the clock, and the value
\* is not before R.updatedAt for a record of the editor; for a record of the
\* import it can be before the updatedAt the file gave
C10_UpdatedAtNotBeforeEditors ==
    /\ PutsClockedRecord
    /\ [](\A i \in 1..Len(txs) : (txs[i].fn = "put" /\ txs[i].caller = "editor")
            => txs[i].next.updatedAt >= txs[i].arg.updatedAt)

C10_Witness ==
    /\ ret.fn = "upsertTask"
    /\ \E i \in 1..Len(txs) :
          /\ txs[i].phase = "committing"
          /\ txs[i].caller = "editor"
          /\ txs[i].next = ret.value
          /\ ret.value.updatedAt > txs[i].arg.updatedAt

\* the transactions a step has taken out of the queue
RemovedTxs == {txs[i] : i \in {k \in 1..Len(txs) : txs' = RemoveAt(txs, k)}}

\* C11: a call of upsertTask(R) is over either with R in the store or with
\* its promise rejected and the store and the cache holding under R.id what
\* they held; and upsertTask(R) resolves with R in the store
C11_RejectsAndNoPartialWrite ==
    /\ [](ret.fn = "upsertTask" => ret.value \in store)
    /\ [][ \A tx \in RemovedTxs : tx.fn = "put"
              => \/ tx.next \in store'
                 \/ /\ ret' = rejected(tx)
                    /\ StoreGet(store', tx.id) = StoreGet(store, tx.id)
                    /\ MapGet(taskCache', tx.id) = MapGet(taskCache, tx.id) ]_vars

\* C12: once the database has failed to open, a call of getAllTasks, of
\* getTaskById for an id that is not in the cache, of upsertTask or of
\* deleteTaskById never gets a transaction, the only way it ends is a
\* rejection, and no step changes the cache or the store; nothing resolves
\* but a getTaskById that finds its id in the cache
C12_OpenFailureRejects ==
    /\ [](dbPromise = "rejected" => \A i \in 1..Len(txs) : txs[i].phase = "failed")
    /\ [][ dbPromise' = "rejected"
              => /\ UNCHANGED <<taskCache, store>>
                 /\ \A tx \in CreatedTxs : tx.phase = "failed"
                 /\ \A tx \in RemovedTxs : ret' = rejected(tx)
                 /\ \/ ret'.fn \in {"none", "rejected"}
                    \/ ret'.fn = "getTaskById" /\ ret'.path = "cache" ]_vars

C12_Witness ==
    /\ dbPromise = "rejected"
    /\ ret.fn = "rejected"
    /\ ret.of = "getTaskById"
    /\ ret.id \in StoreKeys(store)
    /\ txs = <<>>

\* the transactions whose request succeeds in a step
SucceededTxs ==
    {txs[i] : i \in {k \in 1..Len(txs) :
        /\ txs[k].phase = "queued"
        /\ k \in 1..Len(txs')
        /\ txs'[k].phase = "committing"}}

\* C13: the request of a deleteTaskById(id) for an id that is in neither the
\* store nor the cache succeeds like any other: the promise resolves to
\* undefined, and the store and the cache stay as they are
C13_DeleteAbsentIsNoOp ==
    [][ \A tx \in SucceededTxs :
          (tx.fn = "delete" /\ tx.id \notin StoreKeys(store)
                /\ tx.id \notin DOMAIN taskCache)
             => /\ ret' = [fn |-> "deleteTaskById", id |-> tx.id, value |-> Undefined]
                /\ UNCHANGED <<store, taskCache>> ]_vars

C13_Witness ==
    /\ ret.fn = "deleteTaskById"
    /\ ret.id \notin fetched \cup upserted
    /\ store # {}
    /\ taskCache # EmptyMap
    /\ \E i \in 1..Len(txs) :
          /\ txs[i].fn = "delete"
          /\ txs[i].id = ret.id
          /\ txs[i].phase = "committing"
          /\ txs[i].undo = Undefined

\* C14: createTaskDraft returns a record with empty texts and dates, no
\* image, completed false and createdAt and updatedAt the time of the call;
\* its id is the id given, or without one an id nothing has used; the call
\* leaves the connection, the transactions, the store and the cache alone
C14_DraftIsEmptyAndPure ==
    [][ ret'.fn = "createTaskDraft"
          => /\ \A f \in {"title", "caption", "memo", "link", "imageUrl"} :
                   ret'.value[f] = ""
             /\ ret'.value.startDate = NoDate
             /\ ret'.value.endDate = NoDate
             /\ ret'.value.imageBlob = Null
             /\ ret'.value.completed = FALSE
             /\ ret'.value.createdAt = clock
             /\ ret'.value.updatedAt = clock
             /\ IF ret'.given # NoId
                THEN ret'.value.id = ret'.given
                ELSE ret'.value.id \in Ids \ (usedIds \cup StoreKeys(store))
             /\ UNCHANGED <<dbPromise, txs, store, taskCache>> ]_vars

C14_Witness ==
    /\ ret.fn = "createTaskDraft"
    /\ ret.given = NoId
    /\ clock > 1
    /\ dbPromise = "resolved"
    /\ store # {}
    /\ taskCache # EmptyMap
    /\ ret.value.id \notin StoreKeys(store)

\* C15: every record of the store has an updatedAt that is a time not before
\* its createdAt
C15_UpdatedAtNotBeforeCreatedAt ==
    \A r \in store :
        /\ DateGetTime(r.createdAt) # NaN
        /\ DateGetTime(r.updatedAt) # NaN
        /\ DateGetTime(r.updatedAt) >= DateGetTime(r.createdAt)

\* C16: every record of the store that is completed has a completedAt that
\* is a time, and every record that is not has none or an empty one
C16_CompletedHasCompletedAt ==
    \A r \in store :
        IF r.completed
        THEN "completedAt" \in DOMAIN r /\ DateGetTime(r.completedAt) # NaN
        ELSE "completedAt" \in DOMAIN r => r.completedAt = NoDate

\* C17: the task of an editor keeps its id while the editor is mounted, and
\* it is the id of the route when there is one; the autosave timer holds that
\* task, every upsertTask a step issues carries its id, a write adds no key
\* to the store but the id it carries, and no two records of the store share
\* an id
C17_IdIsFixed ==
    /\ [](\A r1, r2 \in store : r1.id = r2.id => r1 = r2)
    /\ []((page = "editor" /\ task # NullTask /\ taskId # NoId) => task.id = taskId)
    /\ [](\A k \in 1..Len(timer) : task # NullTask /\ timer[k].id = task.id)
    /\ [][ (page = "editor" /\ page' = "editor" /\ task # NullTask)
              => (task' # NullTask /\ task'.id = task.id) ]_vars
    /\ [][ \A tx \in CreatedTxs : tx.fn = "put"
              => (tx.id = task.id /\ tx.arg.id = task.id /\ tx.next.id = task.id) ]_vars
    /\ [][ StoreKeys(store') \subseteq
              StoreKeys(store) \cup {tx.next.id : tx \in {x \in SucceededTxs : x.fn = "put"}} ]_vars

C17_Witness ==
    /\ page = "editor"
    /\ taskId = NoId
    /\ task # NullTask
    /\ last[task.id].kind = "put"
    /\ last[task.id].n >= 2
    /\ Cardinality(store) = 2
    /\ ret.fn = "upsertTask"

\* the element of the file the import is about to upsert
NextElement == Head(SkipUnrelated(imp.rest))

\* C18: the upsertTask the import issues for an element that has an id
\* carries that id, so it replaces the record the store holds under it
C18_ImportKeyedByFileId ==
    [][ \A tx \in CreatedTxs :
          (tx.caller = "handleImport" /\ "id" \in DOMAIN NextElement)
             => tx.next.id = NextElement.id ]_vars

\* an element the import makes a task of
TaskLike(sourceTask) ==
    "typeof" \notin DOMAIN sourceTask /\ (DOMAIN sourceTask) \cap TaskLikeFields # {}

\* the ids of the writes in flight
PendingPutIds == {txs[i].id : i \in {k \in 1..Len(txs) : txs[k].fn = "put"}}

\* C20: the import passes over the elements that are no objects or have no
\* recognised field and issues for the next element that is an object with a
\* recognised field one upsertTask, under an id neither stored nor being
\* written; when that write succeeds the store has one record more; and the
\* loop ends, with as many tasks imported as the file has such elements,
\* whatever the other elements are
C20_OneRecordPerTaskLikeElement ==
    /\ [][ \A tx \in CreatedTxs :
              /\ tx.caller = "handleImport"
                    => LET k == Len(imp.rest) - Len(imp'.rest) IN
                       /\ tx.fn = "put"
                       /\ k >= 1
                       /\ imp'.rest = SubSeq(imp.rest, k + 1, Len(imp.rest))
                       /\ \A j \in 1..(k - 1) : ~ TaskLike(imp.rest[j])
                       /\ TaskLike(imp.rest[k])
                       /\ tx.arg.title = asString(imp.rest[k], "title")
                       /\ tx.id \notin StoreKeys(store) \cup PendingPutIds
              /\ tx.caller = "refreshTasks"
                    => /\ \A j \in 1..Len(imp.rest) : ~ TaskLike(imp.rest[j])
                       /\ imp'.count =
                            Cardinality({j \in 1..Len(imp.file) : TaskLike(imp.file[j])}) ]_vars
    /\ [][ \A tx \in SucceededTxs : tx.caller = "handleImport"
              => /\ Cardinality(store') = Cardinality(store) + 1
                 /\ imp'.count = imp.count + 1 ]_vars

C20_Witness ==
    /\ imp.pc = "refreshing"
    /\ imp.count = 1
    /\ Len(imp.file) = 2
    /\ \E j \in 1..2 : imp.file[j] = [foo |-> "a"]
    /\ ret.fn = "upsertTask"
    /\ ret.value \in store
    /\ Cardinality(store) = 2

\* the fields a round trip is to keep
RoundTripFields ==
    { "title", "caption", "memo", "link", "startDate", "endDate", "createdAt",
      "updatedAt", "completed", "completedAt" }

\* a field of a task, a task without completedAt having an empty one
FieldOf(t, f) == IF f \in DOMAIN t THEN t[f] ELSE NoDate

\* the bytes of the images of a task
ImageBytesOf(t) ==
    [k \in 1..Len(getTaskImageBlobs(t)) |-> getTaskImageBlobs(t)[k].bytes]

\* the import in progress reads the file the last export produced
ImportsDownload == download.valid /\ imp.file = download.tasks /\ imp.pc # "idle"

DecodingImages(e) ==
    LET list == IF "imageBlobDataUrls" \in DOMAIN e THEN e.imageBlobDataUrls ELSE <<>>
        one == IF "imageBlobDataUrl" \in DOMAIN e THEN <<e.imageBlobDataUrl>> ELSE <<>>
        good(item) == item.typeof = "dataUrl" /\ item.payload = "AQ=="
    IN  IF SelectSeq(list, good) # <<>> THEN SelectSeq(list, good)
        ELSE SelectSeq(one, good)

\* C21: an import of a file that is no JSON, or whose JSON is neither an
\* array nor an object with an array as tasks, ends in the step that parses
\* it: no transaction is created, no id is drawn, and the store and the cache
\* stay as they are.  An import of a file that is such an array or object
\* issues for an element whose images do not all decode an upsertTask like
\* for any other, with the title of the element and with the images that
\* decode, none if none does, and goes on
C21_MalformedImport ==
    /\ [][ (imp.pc = "reading" /\ imp'.pc # "reading" /\ imp' # imp
               /\ ~ (imp.parsed.json \in {"array", "object"}
                     /\ sourceTasksOf(imp.parsed).json = "array"))
              => /\ imp' = Idle
                 /\ UNCHANGED <<txs, store, taskCache, usedIds, nUpserts, dbPromise>> ]_vars
    /\ [][ \A tx \in CreatedTxs : tx.caller = "handleImport"
              => /\ tx.fn = "put"
                 /\ tx.next.title = NextElement.title
                 /\ Len(tx.next.imageBlobs) = Len(DecodingImages(NextElement))
                 /\ \A k \in 1..Len(tx.next.imageBlobs) : tx.next.imageBlobs[k].bytes = <<1>>
                 /\ tx.next.imageBlob =
                        (IF tx.next.imageBlobs = <<>> THEN Null ELSE tx.next.imageBlobs[1])
                 /\ imp'.pc = "upserting" ]_vars

C21_Witness ==
    /\ imp.pc = "reading"
    /\ imp.parsed = JsonObject([json |-> "string"])
    /\ Cardinality(store) = 2
    /\ \E r \in store : r.title = "c" /\ r.imageBlobs = <<>> /\ r.imageBlob = Null
    /\ taskCache # EmptyMap
    /\ isImportingRef
    /\ Len(tasks) = 2
    /\ txs = <<>>

\* C22: an open request is made only by a call that finds no handle
\* memoized, and from then on the handle is memoized: the calls that follow,
\* those made while the request is pending too, wait for that request or use
\* its connection and make none of their own.  A memoized handle is given
\* up in one step only, the one in which a version change reaches its open
\* connection; a handle that failed to open is never given up
C22_OpenedOnce ==
    /\ [][ (dbPromise' = "pending" /\ dbPromise # "pending")
              => (dbPromise = "null" /\ CreatedTxs # {}) ]_vars
    /\ [][ \A tx \in CreatedTxs :
              /\ dbPromise = "pending" => (dbPromise' = "pending" /\ tx.phase = "awaitDb")
              /\ dbPromise = "resolved" => (dbPromise' = "resolved" /\ tx.phase = "queued")
              /\ dbPromise = "rejected" => (dbPromise' = "rejected" /\ tx.phase = "failed") ]_vars
    /\ [][ (dbPromise = "pending" /\ dbPromise' = "resolved")
              => \A i \in 1..Len(txs) : txs[i].phase = "awaitDb" => txs'[i].phase = "queued" ]_vars
    /\ [][ (dbPromise # "null" /\ dbPromise' = "null")
              => (dbPromise = "resolved" /\ idb.request = "none" /\ idb'.request # "none") ]_vars
    /\ [](dbPromise # "pending" => \A i \in 1..Len(txs) : txs[i].phase # "awaitDb")

C22_Witness ==
    /\ dbPromise = "resolved"
    /\ idb.version = DB_VERSION
    /\ store = {}
    /\ taskCache # EmptyMap
    /\ Len(txs) = 2
    /\ \A i \in 1..2 : txs[i].phase = "queued" /\ ~ txs[i].closing

\* a version change reaches the open connection in this step
VersionChanges == dbPromise = "resolved" /\ idb.request = "none" /\ idb'.request # "none"

\* C23: a version change gives up the memoized handle and leaves the cache
\* as it is; the call that follows makes an open request; and once a version
\* change has reached this tab no call is rejected
C23_ReopensAfterVersionChange ==
    /\ [][VersionChanges => (dbPromise' = "null" /\ taskCache' = taskCache)]_vars
    /\ [][ \A tx \in CreatedTxs : dbPromise = "null"
              => (dbPromise' = "pending" /\ tx.phase = "awaitDb") ]_vars
    /\ [](idb.notified => ret.fn # "rejected")

\* the transactions whose promise a step has settled: those it has taken
\* out of the queue before their request had succeeded, and those whose
\* request has succeeded in it
EndedTxs == {tx \in RemovedTxs : tx.phase # "committing"} \cup SucceededTxs

\* C24, as stated: a call that is in flight on the connection when a version
\* change closes it is not called again by the store, ends with its promise
\* rejected and leaves the cache as it is
C24_InFlightRejects ==
    /\ [][VersionChanges => Len(txs') = Len(txs)]_vars
    /\ [][ \A tx \in EndedTxs : tx.closing
              => (ret' = rejected(tx) /\ taskCache' = taskCache) ]_vars

\* C24, amended: a call that is in flight on the connection when a version
\* change closes it is not called again by the store and does not fail: its
\* transaction is on the connection already, the version change leaves it
\* there, and it ends like any other, getAllTasks and getTaskById with what
\* the store holds, upsertTask with the record in the store and in the cache,
\* deleteTaskById with the id in neither; the other tab's request waits
C24_InFlightCompletes ==
    /\ [][ VersionChanges
              => /\ Len(txs') = Len(txs)
                 /\ \A i \in 1..Len(txs) :
                       /\ txs[i].phase \in {"queued", "committing"}
                       /\ txs'[i] = [txs[i] EXCEPT !.closing = TRUE] ]_vars
    /\ [][ \A tx \in EndedTxs : tx.closing
              => /\ ret'.fn = FnOf(tx)
                 /\ idb' = idb
                 /\ idb.request # "none"
                 /\ tx.fn = "getAll" => (ret'.value = sortedTasks(store)
                                          /\ taskCache' = cacheAfterGetAll(ret'.value))
                 /\ tx.fn = "get" => ret'.value = StoreGet(store, tx.id)
                 /\ tx.fn = "put" => (ret'.value = tx.next /\ tx.next \in store'
                                       /\ MapGet(taskCache', tx.id) = tx.next)
                 /\ tx.fn = "delete" => (tx.id \notin StoreKeys(store')
                                          /\ tx.id \notin DOMAIN taskCache') ]_vars
    /\ [](\A i \in 1..Len(txs) : txs[i].closing => txs[i].phase \in {"queued", "committing"})

C24_Witness ==
    /\ dbPromise = "pending"
    /\ idb.request = "upgrade"
    /\ ret.fn = "upsertTask"
    /\ Len(txs) = 2
    /\ txs[1].closing
    /\ txs[1].phase = "committing"
    /\ txs[1].fn = "put"
    /\ txs[1].undo # Undefined
    /\ MapGet(taskCache, ret.id) = ret.value
    /\ ret.value \in store
    /\ txs[2].phase = "awaitDb"

\* C29: a handle that has failed to open stays memoized, whatever becomes of
\* the database: no step changes it, a call that needs the handle makes no
\* open request, gets no transaction and ends rejected, and the store and
\* the cache stay as this tab left them; a call that resolves is a
\* getTaskById that found its id in the cache.  A handle is given up only
\* when it had opened, in the step of a version change
C29_RejectedHandleStays ==
    /\ [][dbPromise = "rejected" => dbPromise' = "rejected"]_vars
    /\ [][ dbPromise = "rejected"
              => /\ \A tx \in CreatedTxs : tx.phase = "failed"
                 /\ \A tx \in EndedTxs : ret' = rejected(tx)
                 /\ ret'.fn \in {"none", "rejected"}
                       \/ (ret'.fn = "getTaskById" /\ ret'.path = "cache")
                 /\ taskCache' = taskCache
                 /\ store' # store => (idb.request = "delete" /\ store' = {}) ]_vars
    /\ [](dbPromise = "rejected" => \A i \in 1..Len(txs) : txs[i].phase = "failed")
    /\ [][dbPromise' = "null" => (dbPromise = "null" \/ VersionChanges)]_vars

C29_Witness ==
    /\ dbPromise = "rejected"
    /\ idb.version = 0
    /\ idb.request = "none"
    /\ ret.fn = "rejected"
    /\ ret.of = "upsertTask"
    /\ txs = <<>>
    /\ taskCache # EmptyMap

\* C28: when no call is in flight every entry of the cache is under the id
\* of its record and is the record the store holds under that id
C28_CacheCoherent ==
    txs = <<>>
        => \A k \in DOMAIN taskCache :
              /\ taskCache[k].id = k
              /\ StoreGet(store, k) = taskCache[k]

C28_Witness ==
    /\ txs = <<>>
    /\ DOMAIN taskCache = {1, 2}
    /\ StoreKeys(store) = {1, 2}
    /\ last[1].kind = "put"
    /\ last[2].kind = "put"
    /\ ret.fn = "getAllTasks"

\* C25: a getAllTasks ends only when no write was called before it that has
\* not completed, with the list as the store holds it then, and that is the
\* list its caller keeps; a write ends only as the first call in flight,
\* with its record in the store and in the cache, and leaves the list the
\* caller of getAllTasks has received as it is.  So of a getAllTasks and an
\* upsertTask(R) in flight together, the one called first ends first: when
\* that is getAllTasks, its list holds under R.id what the write replaces
C25_ListIsOfItsTime ==
    /\ [][ \A i \in 1..Len(txs) : (txs' = RemoveAt(txs, i) /\ txs[i].fn = "getAll")
              => /\ \A j \in 1..(i - 1) : txs[j].fn \in ReadOnly
                 /\ ret'.value = sortedTasks(store)
                 /\ store' = store
                 /\ txs[i].mounted => tasks' = ret'.value ]_vars
    /\ [][ \A tx \in SucceededTxs : tx.fn = "put"
              => /\ tx = txs[1]
                 /\ tasks' = tasks
                 /\ StoreGet(store', tx.id) = tx.next
                 /\ MapGet(taskCache', tx.id) = tx.next ]_vars

C25_Witness ==
    /\ page = "home"
    /\ ret.fn = "getAllTasks"
    /\ tasks = ret.value
    /\ Len(txs) = 1
    /\ txs[1].fn = "put"
    /\ txs[1].phase = "queued"
    /\ \E k \in 1..Len(tasks) : tasks[k].id = txs[1].id /\ tasks[k] # txs[1].next
    /\ upserted = {}

\* the upsertTask calls of the autosave timer that a step issues
AutosaveCalls == {tx \in CreatedTxs : tx.caller = "autosave"}

\* C26: at most one autosave timer is pending at any time, and it holds the task
\* the editor shows, which is the task after the last edit; an edit of a task
\* that changes it replaces the pending timer by one for the new task and
\* issues no upsertTask; and a step that issues upsertTask for the autosave
\* issues one call, with the task the editor shows, and leaves no timer pending
C26_OneSavePerBurst ==
    /\ [](Len(timer) <= 1)
    /\ [](timer # <<>> => timer = <<task>>)
    /\ [][ (page = "editor" /\ task # NullTask /\ task' # NullTask /\ task' # task)
              => (timer' = <<task'>> /\ CreatedTxs = {} /\ nUpserts' = nUpserts) ]_vars
    /\ [][ \A tx \in AutosaveCalls :
              /\ tx.arg = task
              /\ timer = <<task>>
              /\ timer' = <<>>
              /\ nUpserts' = nUpserts + 1 ]_vars

\* the one call after two edits of the stored task, one of its title and one
\* of its startDate
C26_Witness ==
    /\ page = "editor"
    /\ nUpserts = 1
    /\ timer = <<>>
    /\ \E i \in 1..Len(txs) :
          /\ txs[i].caller = "autosave"
          /\ txs[i].arg = task
          /\ txs[i].arg.title = ""
          /\ txs[i].arg.startDate = 1
    /\ store = {EarlierTask}

\* C27: when the editor unmounts with an autosave timer pending, the timer is
\* cleared in that step and the step issues no upsertTask and leaves the store
\* as it is; no timer is pending while no editor is mounted, and every
\* upsertTask of the autosave is issued by a mounted editor for the task it
\* shows; so that, once the calls in flight have ended, the store stays as
\* it is while no editor is mounted
C27_TeardownCancels ==
    /\ [](page # "editor" => timer = <<>>)
    /\ [][ (page = "editor" /\ page' # "editor" /\ timer # <<>>)
              => /\ timer' = <<>>
                 /\ CreatedTxs = {}
                 /\ nUpserts' = nUpserts
                 /\ store' = store ]_vars
    /\ [][ \A tx \in AutosaveCalls : page = "editor" /\ tx.arg = task ]_vars
    /\ [][ (page # "editor" /\ txs = <<>>) => store' = store ]_vars

\* an editor about to unmount with a timer pending for an edit of the title,
\* after an earlier edit of this editor has been saved
C27_Witness ==
    /\ page = "editor"
    /\ timer = <<task>>
    /\ txs = <<>>
    /\ nUpserts = 1
    /\ last[task.id].kind = "put"
    /\ \E r \in store : /\ r.id = task.id
                        /\ r.startDate = 1
                        /\ r.title = "a"
                        /\ task.title = ""
                        /\ task.startDate = 1

\* C30: a step that sets the editor's first task (from the cache, from
\* getTaskById, or a draft for an id the store does not hold) starts no timer
\* and issues no upsertTask; a timer starts only in a step of a ready editor
\* that already shows a task, which is an edit; every upsertTask is the call
\* of a pending timer; and while no upsertTask has been issued the store stays
\* as it is, records and their updatedAt alike
C30_LoadNeverWrites ==
    /\ []((page = "editor" /\ skipFirstSaveRef) => timer = <<>>)
    /\ [][ (task = NullTask /\ task' # NullTask)
              => (timer' = <<>> /\ {tx \in CreatedTxs : tx.fn = "put"} = {}) ]_vars
    /\ [][ (timer' # <<>> /\ timer' # timer)
              => /\ page = "editor"
                 /\ editorPc = "ready"
                 /\ task # NullTask
                 /\ timer' = <<task'>> ]_vars
    /\ [][ \A tx \in CreatedTxs : tx.fn = "put"
              => (timer # <<>> /\ tx.arg = Head(timer) /\ nUpserts' = nUpserts + 1) ]_vars
    /\ [][ nUpserts' = 0 => store' = store ]_vars

\* the editor of a route whose id the store does not hold, showing the draft
\* getTaskById's undefined has led to, with no timer and no call, after time
\* has passed
C30_Witness ==
    /\ page = "editor"
    /\ taskId \notin StoreKeys(store)
    /\ task # NullTask
    /\ task.id = taskId
    /\ task.createdAt < clock
    /\ ~skipFirstSaveRef
    /\ timer = <<>>
    /\ txs = <<>>
    /\ nUpserts = 0
    /\ store = {}

\* the handleImport calls that have started and not ended
RunningImports == {cur \in {imp, orphan} : cur.pc # "idle"}

\* C31, as stated: at most one import runs at a time; a step that starts one
\* is taken while none runs; a file chosen while isImportingRef is set changes
\* nothing; the ref of the mounted Home is set while its call runs and clear
\* once it has ended, so that the Home accepts a file
C31_OneImportAtATime ==
    /\ [](Cardinality(RunningImports) <= 1)
    /\ [][ (imp'.pc = "reading" /\ imp.pc = "idle") => RunningImports = {} ]_vars
    /\ [][ ret' = ignored => UNCHANGED <<storeVars, envVars, histVars, pageVars>> ]_vars
    /\ []((page = "home" /\ imp.pc # "idle") => isImportingRef)
    /\ []((page = "home" /\ imp.pc = "idle") => ~ isImportingRef)

\* the ids whose record in the store, and whose entry in the cache, a step
\* changes
StoreChanged == {k \in Ids : StoreGet(store', k) # StoreGet(store, k)}
CacheChanged == {k \in Ids : MapGet(taskCache', k) # MapGet(taskCache, k)}

\* C32: the step in which upsertTask(R) or deleteTaskById(id) takes effect
\* changes no record of the store and no entry of the cache but those of its
\* id; a step of getTaskById leaves the store as it is and changes the cache
\* at most by an entry for its id that the cache did not have; createTaskDraft
\* leaves both as they are; and so does the call of any of them, which only
\* creates a transaction
C32_FrameEffects ==
    [][ /\ ret'.fn \in {"upsertTask", "deleteTaskById"}
            => (StoreChanged \subseteq {ret'.id} /\ CacheChanged \subseteq {ret'.id})
        /\ ret'.fn = "getTaskById"
            => /\ StoreChanged = {}
               /\ CacheChanged \subseteq {ret'.id}
               /\ CacheChanged # {} => (ret'.id \notin DOMAIN taskCache
                                         /\ ret'.id \in DOMAIN taskCache')
        /\ ret'.fn = "createTaskDraft" => (StoreChanged = {} /\ CacheChanged = {})
        /\ CreatedTxs # {} => (StoreChanged = {} /\ CacheChanged = {}) ]_vars

\* deleteTaskById(1) has taken effect while the store and the cache hold a
\* record of id 2 that was written after a draft was made
C32_Witness ==
    /\ ret.fn = "deleteTaskById"
    /\ ret.id = 1
    /\ 1 \notin StoreKeys(store)
    /\ 2 \in StoreKeys(store)
    /\ 2 \in DOMAIN taskCache
    /\ last[2].kind = "put"
    /\ 3 \in usedIds

====
